---- MODULE Spec2Model ----
(***************************************************************************)
(* Host lifecycle orchestration: the on-disk host store (hosts/store.go),  *)
(* the Host entity, and the EC2 driver.  The file system under the store   *)
(* root, the active-pointer file and the remote provider are the state;    *)
(* every Store method is one action.                                       *)
(*                                                                         *)
(* Reads of the local disk are deterministic functions of its contents;    *)
(* writes (MkdirAll, SaveConfig) and every remote call may fail, chosen by *)
(* the action's inputs.                                                    *)
(***************************************************************************)
EXTENDS Integers, Sequences, FiniteSets, TLC

\* ------------------------------------------------------------------ bounds
MaxRemote == 2         \* instances the remote provider hands out in one run

InstancePool == <<"i-1", "i-2", "i-3", "i-4">>

\* The host names callers use.
HostNames == {"default", "a", "b"}

\* Directory entries of the store root in the order ioutil.ReadDir returns
\* them (sorted by file name).
EntryOrder == <<".active", "a", "b", "default">>

\* ------------------------------------------------------- state enumeration
None == 0
Running == 1
Paused == 2
Saved == 3
Stopped == 4
Starting == 5
Error == 6

\* --------------------------------------------------------- driver constants
MAX_REQUEST_ATTEMPTS == 5
MAX_SSH_CONNECTION_ATTEMPTS == 1000
DEFAULT_IMAGE_ID == "ami-27939962"
DEFAULT_SECURITY_GROUP == "docker-hosts"
DEFAULT_REGION == "us-west-1"

\* The names drivers.Register was called with (the ec2 package's init).
RegisteredDrivers == {"ec2"}

\* ec2.Driver as NewDriver returns it: every field the Go zero value.
NewDriver ==
  [ AccessKey |-> "", SecretKey |-> "", InstanceId |-> "", InstanceName |-> "",
    KeyName |-> "", IPAddress |-> "", NoInstall |-> FALSE, NoProvision |-> FALSE,
    ImageId |-> "", Region |-> "", SecurityGroup |-> "", PublicDnsName |-> "" ]

\* ------------------------------------------------------------------- state
VARIABLES
  rootExists,   \* the store root directory exists
  dirs,         \* dirs[n]: the subdirectory root/n and what it holds
  active,       \* the file root/.active: present, and the name it holds
  remote,       \* the provider: instances alive, security group, id counter
  last,         \* what the last call returned and did
  run,          \* the driver method in progress: its position and what it did
  conf,         \* the process environment, the host settings and the last lookup
  procs         \* the Store.Create calls in progress side by side

vars == <<rootExists, dirs, active, remote, last, run, conf, procs>>

NoDir == [exists |-> FALSE, saved |-> FALSE, cfg |-> NewDriver, key |-> FALSE]
EmptyDir == [exists |-> TRUE, saved |-> FALSE, cfg |-> NewDriver, key |-> FALSE]
NoActive == [present |-> FALSE, name |-> ""]

NoHost == [Name |-> "", DriverName |-> "", d |-> NewDriver]

NoResp == [fail |-> "", ReservationSet |-> <<>>]

\* last: the method called and its argument, the error and host it returned
\* ("" is nil, NoHost is nil), the steps it went through and the requests it
\* sent to the provider, in order; for List the hosts returned; for GetState
\* the provider's answer, the state returned and whether the call panicked.
NoLast ==
  [ op |-> "none", name |-> "", err |-> "", host |-> NoHost, trace |-> <<>>,
    calls |-> <<>>, list |-> <<>>, resp |-> NoResp, st |-> None, panic |-> FALSE ]

\* run: the driver method being executed (op) and where it stands (pc), the
\* driver's fields, the error it returned ("" is nil) or that it panicked,
\* the requests sent to the provider in order and what each met, what the
\* private key file
\* holds ("" for no file), the polls made by provision's loop, the authorize calls made
\* by createSecurityGroup's loop, whether a dial to port 22 succeeded, and
\* the bootstrap commands run over SSH and how each ended, for GetState the provider's answer
\* and the state returned, whether every request, probe and command so
\* far succeeded, and for GetURL and GetIP the string returned.
NoRun ==
  [ op |-> "none", pc |-> "idle", d |-> NewDriver, err |-> "", panic |-> FALSE,
    reqs |-> <<>>, answers |-> <<>>, keyFile |-> "", attempts |-> 0, authAttempts |-> 0,
    probed |-> FALSE, cmds |-> <<>>, st |-> None, resp |-> NoResp,
    clean |-> TRUE, out |-> "" ]

\* conf: what the process was started with and the last settings lookup:
\* the environment (a variable that is unset reads as ""), the create flags
\* the command line gave (nil for none), hostConnectionSettings (nil marks a
\* nil map; a key that is absent reads as nil), which getter ran last, what
\* it returned and whether it ended the process (log.Fatal) or panicked.
\* A Go interface{} value: its dynamic type and, as text, what it holds.
NilV == [type |-> "nil", val |-> ""]
StrV(s) == [type |-> "string", val |-> s]
BoolV(b) == [type |-> "bool", val |-> IF b THEN "true" ELSE "false"]
NumV(s) == [type |-> "float64", val |-> s]

\* hostConnectionSettings with no key set: a lookup yields nil.
NoSettings == [Host |-> NilV, TlsVerify |-> NilV, CertPath |-> NilV]

NoEnv ==
  [ DOCKER_HOST |-> "", DOCKER_TLS_VERIFY |-> "", DOCKER_CERT_PATH |-> "",
    AWS_ACCESS_KEY_ID |-> "", AWS_SECRET_ACCESS_KEY |-> "" ]
NoConf ==
  [ env |-> NoEnv, flags |-> [nil |-> TRUE],
    nil |-> TRUE, settings |-> NoSettings, op |-> "none", out |-> NilV,
    fatal |-> FALSE, panic |-> FALSE ]

\* procs: one entry per concurrent caller of Store.Create.
Procs == {1, 2}
NoProc ==
  [ pc |-> "idle", name |-> "", host |-> NoHost, err |-> "", calls |-> <<>> ]
NoProcs == [p \in Procs |-> NoProc]

Ret(op, name, err, host, trace, calls) ==
  [ op |-> op, name |-> name, err |-> err, host |-> host, trace |-> trace,
    calls |-> calls, list |-> <<>>, resp |-> NoResp, st |-> None, panic |-> FALSE ]

\* ------------------------------------------------------------- Store reads

\* Store.Exists: "default" exists without a look at the disk; any other name
\* exists iff os.Stat finds root/name.
DirOf(name) == IF name \in DOMAIN dirs THEN dirs[name] ELSE NoDir

ExistsSavedOnly(name) ==
  IF name = "default" THEN TRUE ELSE DirOf(name).exists /\ DirOf(name).saved
ExistsNoDefault(name) == DirOf(name).exists
ExistsNoStat(name) == name = "default"
Exists(name) ==
  IF name = "default" THEN TRUE ELSE DirOf(name).exists

\* LoadHost: the default host needs nothing on disk; any other host needs its
\* directory and the descriptor SaveConfig wrote into it.
LoadHost(name) ==
  IF name = "default"
    THEN [err |-> "", host |-> [Name |-> "default", DriverName |-> "", d |-> NewDriver]]
  ELSE IF ~DirOf(name).exists
    THEN [err |-> "does not exist", host |-> NoHost]
  ELSE IF ~DirOf(name).saved
    THEN [err |-> "load config", host |-> NoHost]
  ELSE [err |-> "", host |-> [Name |-> name, DriverName |-> "ec2", d |-> DirOf(name).cfg]]

\* Store.Load
Load(name) == LoadHost(name)

\* Store.GetActive: no pointer file means the default host.
GetActiveNoFallback ==
  IF ~active.present
    THEN [err |-> "no such file", host |-> NoHost]
    ELSE Load(active.name)
GetActive ==
  IF ~active.present
    THEN Load("default")
    ELSE Load(active.name)

\* Store.IsActive
IsActive(name) ==
  LET a == GetActive IN
  IF a.err # "" THEN [err |-> a.err, is |-> FALSE]
  ELSE [err |-> "", is |-> a.host.Name = name]

\* ioutil.ReadDir(s.Path): nothing when the root is missing (List ignores
\* IsNotExist), else the root's entries sorted by name.
IsEntry(e) ==
  IF e = ".active" THEN active.present ELSE (e \in HostNames /\ dirs[e].exists)

ReadDir ==
  IF ~rootExists THEN <<>>
  ELSE LET present == SelectSeq(EntryOrder, IsEntry)
       IN [i \in 1..Len(present) |->
             [name |-> present[i], isDir |-> present[i] # ".active"]]

\* The body of List's loop for one directory entry.
ListEntryKeepDefault(hosts, file) ==
  IF file.isDir
    THEN LET h == Load(file.name) IN
         IF h.err # "" THEN hosts ELSE Append(hosts, h.host)
    ELSE hosts
\* A loop body that gives the listing up when one host does not load.
ListEntryAbort(hosts, file) ==
  IF file.isDir
    THEN IF file.name = "default" THEN hosts
         ELSE LET h == Load(file.name) IN
              IF h.err # "" THEN <<>> ELSE Append(hosts, h.host)
    ELSE hosts
ListEntry(hosts, file) ==
  IF file.isDir
    THEN IF file.name = "default" THEN hosts
         ELSE LET h == Load(file.name) IN
              IF h.err # "" THEN hosts ELSE Append(hosts, h.host)
    ELSE hosts

RECURSIVE ListLoop(_, _)
ListLoop(hosts, dir) ==
  IF dir = <<>> THEN hosts
  ELSE ListLoop(ListEntry(hosts, Head(dir)), Tail(dir))

\* Store.List
List ==
  LET dflt == Load("default") IN
  IF dflt.err # "" THEN [err |-> dflt.err, hosts |-> <<>>]
  ELSE [err |-> "", hosts |-> ListLoop(<<dflt.host>>, ReadDir)]

HostNamesOf(hosts) == [i \in 1..Len(hosts) |-> hosts[i].Name]
Count(seq, x) == Cardinality({i \in 1..Len(seq) : seq[i] = x})

\* ----------------------------------------------------------- the EC2 driver

\* Flags as RegisterCreateFlags hands them over, image, region and security
\* group at their defaults; nil marks Store.Create's createFlags == nil.
Flags(nil, ak, sk, iname, noInstall, noProvision) ==
  [ nil |-> nil, AccessKey |-> ak, SecretKey |-> sk, InstanceName |-> iname,
    NoInstall |-> noInstall, NoProvision |-> noProvision,
    ImageId |-> DEFAULT_IMAGE_ID, Region |-> DEFAULT_REGION,
    SecurityGroup |-> DEFAULT_SECURITY_GROUP ]

\* The same flags with -ec2-region and -ec2-image-id given.
FlagsIn(flags, region, image) ==
  [flags EXCEPT !.Region = region, !.ImageId = image]

\* aws.EnvAuth: both variables must be set and non-empty.
EnvAuthNoCheck(env) ==
  [err |-> "", AccessKey |-> env.AWS_ACCESS_KEY_ID,
   SecretKey |-> env.AWS_SECRET_ACCESS_KEY]
EnvAuth(env) ==
  IF env.AWS_ACCESS_KEY_ID = ""
    THEN [err |-> "AWS_ACCESS_KEY_ID not defined", AccessKey |-> "", SecretKey |-> ""]
  ELSE IF env.AWS_SECRET_ACCESS_KEY = ""
    THEN [err |-> "AWS_SECRET_ACCESS_KEY not defined", AccessKey |-> "", SecretKey |-> ""]
  ELSE [err |-> "", AccessKey |-> env.AWS_ACCESS_KEY_ID,
        SecretKey |-> env.AWS_SECRET_ACCESS_KEY]

\* Driver.SetConfigFromFlags
SetConfigFromFlags(d, flags, env) ==
  LET d1 == [d EXCEPT !.AccessKey = flags.AccessKey, !.SecretKey = flags.SecretKey,
                      !.ImageId = flags.ImageId, !.Region = flags.Region,
                      !.SecurityGroup = flags.SecurityGroup,
                      !.InstanceName = flags.InstanceName,
                      !.NoInstall = flags.NoInstall,
                      !.NoProvision = flags.NoProvision]
  IN IF d1.AccessKey = "" \/ d1.SecretKey = ""
       THEN LET a == EnvAuth(env)
                d2 == [d1 EXCEPT !.AccessKey = a.AccessKey, !.SecretKey = a.SecretKey]
            IN IF a.err # ""
                 THEN [err |-> "Error setting the AWS_ACCESS_KEY_ID and AWS_SECRET_ACCESS_KEY environment variables :" \o a.err,
                       d |-> d2]
                 ELSE [err |-> "", d |-> d2]
       ELSE [err |-> "", d |-> d1]

\* Driver.GetURL
GetURL(d) == IF d.IPAddress = "" THEN "" ELSE "tcp://" \o d.IPAddress \o ":2375"

\* Driver.GetIP
GetIP(d) ==
  IF d.IPAddress = "" THEN [ip |-> "", err |-> "IP Address does not exist yet"]
  ELSE [ip |-> d.IPAddress, err |-> ""]

\* One execution of a driver method: the driver's fields, the error so far,
\* the remote requests issued in order, whether the private key file was
\* written into the host directory, and the provider's state.
Ctx(d, rem) == [d |-> d, err |-> "", calls |-> <<>>, key |-> FALSE, remote |-> rem]

Call(c, action) == [c EXCEPT !.calls = Append(@, action)]
Fail(c, msg) == [c EXCEPT !.err = msg]

\* Driver.setInstanceNameIfNotSet: rid is utils.GenerateRandomID()'s result.
setInstanceNameIfNotSet(c, rid) ==
  IF c.d.InstanceName = ""
    THEN [c EXCEPT !.d.InstanceName = "docker-host-" \o rid]
    ELSE c

\* Driver.createSecurityGroup.  The provider answers 400 InvalidGroup.Duplicate
\* when the group is there already; then the group is reused and no ingress
\* rule is sent.  failAt names the request the provider fails fatally.
createSecurityGroupNoReuse(c, failAt) ==
  LET c1 == Call(c, "CreateSecurityGroup") IN
  IF failAt = "CreateSecurityGroup" THEN Fail(c1, "create security group")
  ELSE LET c2 == Call([c1 EXCEPT !.remote.group = TRUE],
                      "AuthorizeSecurityGroupIngress")
       IN IF failAt = "AuthorizeSecurityGroupIngress"
            THEN Fail(c2, "authorize security group ingress")
            ELSE c2
createSecurityGroup(c, failAt) ==
  LET c1 == Call(c, "CreateSecurityGroup") IN
  IF failAt = "CreateSecurityGroup" THEN Fail(c1, "create security group")
  ELSE IF c1.remote.group THEN c1
  ELSE LET c2 == Call([c1 EXCEPT !.remote.group = TRUE],
                      "AuthorizeSecurityGroupIngress")
       IN IF failAt = "AuthorizeSecurityGroupIngress"
            THEN Fail(c2, "authorize security group ingress")
            ELSE c2

\* Driver.createKeyPair
createKeyPair(c, failAt) ==
  LET c1 == Call([c EXCEPT !.d.KeyName = c.d.InstanceName \o "-key"],
                 "CreateKeyPair")
  IN IF failAt = "CreateKeyPair" THEN Fail(c1, "create keypair")
     ELSE IF failAt = "WriteFile" THEN Fail(c1, "write ssh key")
     ELSE [c1 EXCEPT !.key = TRUE]

\* Driver.runInstance and the assignment of d.InstanceId in Create.
runInstance(c, failAt) ==
  LET c1 == Call(c, "RunInstances") IN
  IF failAt = "RunInstances" THEN Fail(c1, "run instance")
  ELSE LET id == InstancePool[c1.remote.next] IN
       [c1 EXCEPT !.d.InstanceId = id,
                  !.remote.instances = @ \cup {id},
                  !.remote.next = @ + 1]

\* The polling loop of Driver.provision.  polls scripts what each iteration
\* meets: "error" (GetState fails), "noip" (no address reported yet),
\* "refused" (address reported, the dial to port 22 fails) or "up" (the dial
\* succeeds); the last entry repeats.
RECURSIVE pollLoop(_, _, _)
pollLoop(c, attempts0, polls) ==
  LET attempts == attempts0 + 1
      poll == Head(polls)
      rest == IF Len(polls) > 1 THEN Tail(polls) ELSE polls
      c1 == Call(c, "DescribeInstances")
  IN IF poll = "error" THEN Fail(c1, "get instance state")
     ELSE IF poll = "noip"
       THEN pollLoop([c1 EXCEPT !.d.IPAddress = ""], attempts, rest)
     ELSE LET c2 == [c1 EXCEPT !.d.IPAddress = "10.0.0.1"] IN
          IF poll = "refused"
            THEN IF attempts < MAX_SSH_CONNECTION_ATTEMPTS
                   THEN pollLoop(c2, attempts, rest)
                   ELSE Fail(c2, "ssh max attempts exceeded")
            ELSE c2

\* Driver.provision: wait for SSH, then the bootstrap commands in order.
provision(c, failAt, polls) ==
  LET c2 == pollLoop(c, 0, polls) IN
  IF c2.err # "" THEN c2
  ELSE
    LET c3 == IF c2.d.NoInstall THEN c2 ELSE Call(c2, "ssh install")
    IN IF ~c2.d.NoInstall /\ failAt = "ssh install" THEN Fail(c3, "install docker")
       ELSE LET c4 == Call(c3, "ssh options") IN
            IF failAt = "ssh options" THEN Fail(c4, "daemon options")
            ELSE LET c5 == Call(c4, "ssh restart") IN
                 IF failAt = "ssh restart" THEN Fail(c5, "restart docker")
                 ELSE c5

\* Driver.tagInstance
tagInstance(c, failAt) ==
  LET c1 == Call(c, "CreateTags") IN
  IF failAt = "CreateTags" THEN Fail(c1, "tag instance") ELSE c1

\* Driver.Create up to the key pair.
CreateAccess(d, rem, failAt, rid) ==
  LET c0 == setInstanceNameIfNotSet(Ctx(d, rem), rid)
      c1 == createSecurityGroup(c0, failAt)
  IN IF c1.err # "" THEN c1 ELSE createKeyPair(c1, failAt)

\* Driver.Create: each step is fatal, nothing is undone.
DriverCreate(d, rem, failAt, rid, polls) ==
  LET c2 == CreateAccess(d, rem, failAt, rid) IN
     IF c2.err # "" THEN c2 ELSE
     LET c3 == runInstance(c2, failAt) IN
     IF c3.err # "" THEN c3 ELSE
     LET c4 == IF ~c3.d.NoProvision THEN provision(c3, failAt, polls) ELSE c3 IN
     IF c4.err # "" THEN c4 ELSE
     tagInstance(c4, failAt)

\* The steps a script can fail.
FailPoints == {"CreateSecurityGroup", "AuthorizeSecurityGroupIngress",
               "CreateKeyPair", "WriteFile", "RunInstances", "ssh install",
               "ssh options", "ssh restart", "CreateTags", "none"}

\* Driver.Remove: delete the key pair, then terminate the instance.
DriverRemove(d, rem, failAt) ==
  LET c1 == Call(Ctx(d, rem), "DeleteKeyPair") IN
  IF failAt = "DeleteKeyPair" THEN Fail(c1, "delete keypair")
  ELSE LET c2 == Call(c1, "TerminateInstances") IN
       IF failAt = "TerminateInstances" THEN Fail(c2, "terminate instance")
       ELSE [c2 EXCEPT !.remote.instances = @ \ {d.InstanceId}]

\* DefaultDriver.Remove
DefaultDriverRemove(d, rem) == Fail(Ctx(d, rem), "default driver cannot be removed")

\* ------------------------------------------------------------------ GetState

\* strings.TrimSpace on a string given as its sequence of tokens, " " and
\* "\n" being the white space.
IsSpace(t) == t \in {" ", "\n", "\t"}

RECURSIVE TrimLeft(_)
TrimLeft(s) ==
  IF s # <<>> /\ IsSpace(Head(s)) THEN TrimLeft(Tail(s)) ELSE s

RECURSIVE TrimRight(_)
TrimRight(s) ==
  IF s # <<>> /\ IsSpace(s[Len(s)]) THEN TrimRight(SubSeq(s, 1, Len(s) - 1)) ELSE s

TrimSpace(s) == TrimRight(TrimLeft(s))

\* The switch at the end of Driver.GetState.
StateOf(shortState) ==
  IF shortState = <<"pending">> THEN [st |-> Starting, err |-> ""]
  ELSE IF shortState = <<"running">> THEN [st |-> Running, err |-> ""]
  ELSE IF shortState = <<"stopped">> THEN [st |-> Stopped, err |-> ""]
  ELSE IF shortState = <<"stopping">> THEN [st |-> Stopped, err |-> ""]
  ELSE [st |-> Error, err |-> ""]

\* Driver.GetState on the provider's answer resp: fail names what went wrong
\* with the request or its decoding ("" for nothing); the decoded
\* DescribeInstancesResponse is indexed at [0] three times, and Go panics on
\* an index into an empty slice.
GetState(d, resp) ==
  IF resp.fail # ""
    THEN [st |-> Error, err |-> resp.fail, panic |-> FALSE, d |-> d]
  ELSE IF Len(resp.ReservationSet) = 0
    THEN [st |-> None, err |-> "", panic |-> TRUE, d |-> d]
  ELSE LET reservationSet == resp.ReservationSet[1] IN
  IF Len(reservationSet.InstancesSet) = 0
    THEN [st |-> None, err |-> "", panic |-> TRUE, d |-> d]
  ELSE LET instance == reservationSet.InstancesSet[1] IN
  IF Len(instance.NetworkInterfaceSet) = 0
    THEN [st |-> None, err |-> "", panic |-> TRUE, d |-> d]
  ELSE LET association == instance.NetworkInterfaceSet[1]
           r == StateOf(TrimSpace(instance.InstanceState))
       IN [st |-> r.st, err |-> r.err, panic |-> FALSE,
           d |-> [d EXCEPT !.IPAddress = association.PublicIp,
                           !.PublicDnsName = association.PublicDnsName]]

\* DefaultDriver.GetState
DefaultGetState(d) == [st |-> None, err |-> "", panic |-> FALSE, d |-> d]

\* Answers of the provider to DescribeInstances; an instance with a public
\* address has a public DNS name made from it.
DnsNameOf(ip) == IF ip = "" THEN "" ELSE "ec2-" \o ip \o ".compute.amazonaws.com"
Described(status, ip) ==
  [ fail |-> "",
    ReservationSet |->
      << [InstancesSet |->
            << [InstanceState |-> status,
                NetworkInterfaceSet |->
                  << [PublicIp |-> ip, PublicDnsName |-> DnsNameOf(ip)] >>] >>] >> ]

StatusStrings ==
  { <<"pending">>, <<"running">>, <<"stopped">>, <<"stopping">>,
    <<"shutting-down">>, <<"terminated">>, <<>>,
    <<" ", "running">>, <<"stopped", "\n">>, <<" ", "pending", " ">>,
    <<"run", " ", "ning">> }

Responses ==
  { Described(s, ip) : s \in StatusStrings, ip \in {"", "10.0.0.1"} }
  \cup { [fail |-> f, ReservationSet |-> <<>>] : f \in {"api call", "read body", "unmarshal"} }
  \cup { [fail |-> "", ReservationSet |-> <<>>],
         [fail |-> "", ReservationSet |-> << [InstancesSet |-> <<>>] >>],
         [fail |-> "",
          ReservationSet |->
            << [InstancesSet |->
                  << [InstanceState |-> <<"stopped">>,
                      NetworkInterfaceSet |-> <<>>] >>] >>] }

\* ------------------------------------------------------------ Store writes

\* NewHost: the driver comes from the registry; an unregistered name is an
\* error and no host.
NewHost(name, driverName) ==
  IF driverName \notin RegisteredDrivers
    THEN [err |-> "unknown driver", host |-> NoHost]
    ELSE [err |-> "", host |-> [Name |-> name, DriverName |-> driverName, d |-> NewDriver]]

\* Host.SaveConfig: the driver's fields go into the host directory.
SaveConfig(dir, d) == [dir EXCEPT !.saved = TRUE, !.cfg = d]

\* A Create that reports success without writing the descriptor.
CreateFinishNoSave(host, c, saveOk) ==
  LET h == [host EXCEPT !.d = c.d]
      dir == [EmptyDir EXCEPT !.key = c.key]
  IN IF c.err # ""
       THEN [err |-> c.err, host |-> h, dir |-> dir,
             trace |-> <<"Driver.Create">>]
     ELSE IF ~saveOk
       THEN [err |-> "save config", host |-> h, dir |-> dir,
             trace |-> <<"Driver.Create", "SaveConfig">>]
     ELSE [err |-> "", host |-> h, dir |-> dir,
           trace |-> <<"Driver.Create", "SaveConfig">>]

\* A Create that cleans up after a failure: no host, no directory.
CreateFinishCleanup(host, c, saveOk) ==
  LET h == [host EXCEPT !.d = c.d]
      dir == [EmptyDir EXCEPT !.key = c.key]
  IN IF c.err # ""
       THEN [err |-> c.err, host |-> NoHost, dir |-> NoDir,
             trace |-> <<"Driver.Create">>]
     ELSE IF ~saveOk
       THEN [err |-> "save config", host |-> NoHost, dir |-> NoDir,
             trace |-> <<"Driver.Create", "SaveConfig">>]
     ELSE [err |-> "", host |-> h, dir |-> SaveConfig(dir, c.d),
           trace |-> <<"Driver.Create", "SaveConfig">>]

\* Store.Create from host.Create() on: c is what Driver.Create did in the
\* directory MkdirAll just made.  Whatever fails, the host is returned and
\* the directory stays.
\* A Create that writes the descriptor whatever Driver.Create returned.
CreateFinishSaveFirst(host, c, saveOk) ==
  LET h == [host EXCEPT !.d = c.d]
      dir == [EmptyDir EXCEPT !.key = c.key]
  IN IF c.err # ""
       THEN [err |-> c.err, host |-> h, dir |-> SaveConfig(dir, c.d),
             trace |-> <<"Driver.Create">>]
     ELSE IF ~saveOk
       THEN [err |-> "save config", host |-> h, dir |-> dir,
             trace |-> <<"Driver.Create", "SaveConfig">>]
     ELSE [err |-> "", host |-> h, dir |-> SaveConfig(dir, c.d),
           trace |-> <<"Driver.Create", "SaveConfig">>]
CreateFinish(host, c, saveOk) ==
  LET h == [host EXCEPT !.d = c.d]
      dir == [EmptyDir EXCEPT !.key = c.key]
  IN IF c.err # ""
       THEN [err |-> c.err, host |-> h, dir |-> dir,
             trace |-> <<"Driver.Create">>]
     ELSE IF ~saveOk
       THEN [err |-> "save config", host |-> h, dir |-> dir,
             trace |-> <<"Driver.Create", "SaveConfig">>]
     ELSE [err |-> "", host |-> h, dir |-> SaveConfig(dir, c.d),
           trace |-> <<"Driver.Create", "SaveConfig">>]

\* The environment and the flags Create is called with: no flags at all,
\* flags carrying credentials, flags without them.
Envs == { [AWS_ACCESS_KEY_ID |-> "", AWS_SECRET_ACCESS_KEY |-> ""] }

CreateFlags ==
  { Flags(TRUE, "", "", "", FALSE, FALSE),
    Flags(FALSE, "AK", "SK", "web", TRUE, TRUE),
    Flags(FALSE, "", "", "", FALSE, FALSE) }

DriverNames == {"ec2", "vbox"}
RandomIDs == {"4f1c"}
Polls == { <<"up">>, <<"noip", "refused", "error">> }

\* The host directories as a return of Store.Create ahead of os.MkdirAll
\* leaves them.
BeforeMkdirAllMade(name) == [dirs EXCEPT ![name] = EmptyDir]
BeforeMkdirAll(name) == dirs

\* Store.Create, called with flags out of flagSet in an environment out of
\* envs.
CreateWith(name, driverName, flagSet, envs) ==
  IF Exists(name)
    THEN /\ last' = Ret("Create", name, "already exists", NoHost, <<"Exists">>, <<>>)
         /\ UNCHANGED <<rootExists, dirs, active, remote, run, conf, procs>>
  ELSE LET nh == NewHost(name, driverName) IN
  IF nh.err # ""
    THEN /\ last' = Ret("Create", name, nh.err, nh.host, <<"Exists", "NewHost">>, <<>>)
         /\ dirs' = BeforeMkdirAll(name)
         /\ UNCHANGED <<rootExists, active, remote, run, conf, procs>>
  ELSE \E flags \in flagSet, env \in envs :
    LET cfg == IF flags.nil THEN [err |-> "", d |-> nh.host.d]
               ELSE SetConfigFromFlags(nh.host.d, flags, env)
        host == [nh.host EXCEPT !.d = cfg.d]
    IN IF cfg.err # ""
         THEN /\ last' = Ret("Create", name, cfg.err, host,
                             <<"Exists", "NewHost", "SetConfigFromFlags">>, <<>>)
              /\ dirs' = BeforeMkdirAll(name)
              /\ UNCHANGED <<rootExists, active, remote, run, conf, procs>>
       ELSE \E mkdirOk \in BOOLEAN :
         IF ~mkdirOk
           THEN /\ last' = Ret("Create", name, "mkdir", NoHost,
                               <<"Exists", "NewHost", "SetConfigFromFlags", "MkdirAll">>,
                               <<>>)
                /\ UNCHANGED <<rootExists, dirs, active, remote, run, conf, procs>>
         ELSE \E failAt \in FailPoints, rid \in RandomIDs, polls \in Polls,
                 saveOk \in BOOLEAN :
           /\ CreateAccess(host.d, remote, failAt, rid).err = ""
                => remote.next <= MaxRemote
           /\ LET c == DriverCreate(host.d, remote, failAt, rid, polls)
                  r == CreateFinish(host, c, saveOk)
              IN /\ c.err # "" => saveOk
                 /\ last' = Ret("Create", name, r.err, r.host,
                                <<"Exists", "NewHost", "SetConfigFromFlags", "MkdirAll">>
                                  \o r.trace,
                                c.calls)
                 /\ rootExists' = TRUE
                 /\ dirs' = [dirs EXCEPT ![name] = r.dir]
                 /\ remote' = c.remote
                 /\ UNCHANGED <<active, run, conf, procs>>

\* Store.Create
Create(name, driverName) == CreateWith(name, driverName, CreateFlags, Envs)

\* Host.Remove: deprovision through the driver, then delete the host
\* directory; a driver error leaves the directory.
HostRemove(host, failAt) ==
  LET c == IF host.Name = "default"
             THEN DefaultDriverRemove(host.d, remote)
             ELSE DriverRemove(host.d, remote, failAt)
  IN IF c.err # ""
       THEN [err |-> c.err, calls |-> c.calls, remote |-> c.remote,
             dirs |-> dirs, trace |-> <<"Driver.Remove">>]
       ELSE [err |-> "", calls |-> c.calls, remote |-> c.remote,
             dirs |-> [dirs EXCEPT ![host.Name] = NoDir],
             trace |-> <<"Driver.Remove", "RemoveAll">>]

\* os.Remove(activePath): fails when there is no file.
RemoveActiveFile ==
  IF active.present THEN [err |-> "", active |-> NoActive]
  ELSE [err |-> "remove .active: no such file", active |-> active]

RemoveFailPoints == {"none", "DeleteKeyPair", "TerminateInstances"}

\* Store.Remove, the pointer: cleared first when name is the active host.
ClearIfActiveNever(a, name) ==
  [err |-> "", active |-> active, trace |-> <<"GetActive">>]
ClearIfActiveAlways(a, name) ==
  LET ra == RemoveActiveFile IN
  [err |-> IF a.host.Name = name THEN ra.err ELSE "", active |-> ra.active,
   trace |-> IF a.host.Name = name THEN <<"GetActive", "RemoveActive">>
             ELSE <<"GetActive">>]
ClearIfActive(a, name) ==
  IF a.host.Name = name
    THEN LET ra == RemoveActiveFile IN
         [err |-> ra.err, active |-> ra.active,
          trace |-> <<"GetActive", "RemoveActive">>]
    ELSE [err |-> "", active |-> active, trace |-> <<"GetActive">>]

\* Store.Remove, the last line: return host.Remove().
RemoveLoadedDriverOnly(host, failAt) ==
  [HostRemove(host, failAt) EXCEPT !.dirs = dirs, !.trace = <<"Driver.Remove">>]
RemoveLoaded(host, failAt) == HostRemove(host, failAt)

\* A Remove that puts the pointer back when the load or the driver fails.
StoreRemoveAtomic(name, failAt) ==
  LET a == GetActive
      same == [err |-> "", calls |-> <<>>, active |-> active, dirs |-> dirs,
               remote |-> remote, trace |-> <<"GetActive">>]
  IN IF a.err # "" THEN [same EXCEPT !.err = a.err]
     ELSE
       LET ra == ClearIfActive(a, name) IN
       IF ra.err # "" THEN [same EXCEPT !.err = ra.err, !.trace = ra.trace]
       ELSE
         LET h == Load(name)
             t2 == Append(ra.trace, "Load")
         IN IF h.err # ""
              THEN [same EXCEPT !.err = h.err, !.trace = t2]
              ELSE LET r == RemoveLoaded(h.host, failAt) IN
                   [err |-> r.err, calls |-> r.calls,
                    active |-> IF r.err # "" THEN active ELSE ra.active,
                    dirs |-> r.dirs, remote |-> r.remote,
                    trace |-> t2 \o r.trace]
\* Store.Remove: what it returns and leaves behind.
StoreRemove(name, failAt) ==
  LET a == GetActive
      same == [err |-> "", calls |-> <<>>, active |-> active, dirs |-> dirs,
               remote |-> remote, trace |-> <<"GetActive">>]
  IN IF a.err # "" THEN [same EXCEPT !.err = a.err]
     ELSE
       LET ra == ClearIfActive(a, name) IN
       IF ra.err # "" THEN [same EXCEPT !.err = ra.err, !.trace = ra.trace]
       ELSE
         LET h == Load(name)
             t2 == Append(ra.trace, "Load")
         IN IF h.err # ""
              THEN [same EXCEPT !.err = h.err, !.active = ra.active, !.trace = t2]
              ELSE LET r == RemoveLoaded(h.host, failAt) IN
                   [err |-> r.err, calls |-> r.calls, active |-> ra.active,
                    dirs |-> r.dirs, remote |-> r.remote,
                    trace |-> t2 \o r.trace]

Remove(name) ==
  \E failAt \in RemoveFailPoints :
    LET r == StoreRemove(name, failAt) IN
    /\ last' = Ret("Remove", name, r.err, NoHost, r.trace, r.calls)
    /\ active' = r.active
    /\ dirs' = r.dirs
    /\ remote' = r.remote
    /\ UNCHANGED <<rootExists, run, conf, procs>>

\* The hosts a caller can hold: one it loaded, or the one the last Create
\* returned (also with an error).
Holds(name) ==
  \/ Load(name).err = ""
  \/ last.op = "Create" /\ last.host.Name = name

\* ioutil.WriteFile(activePath, host.Name)
WriteActiveDriverName(name) == [present |-> TRUE, name |-> "ec2"]
WriteActive(name) == [present |-> TRUE, name |-> name]

\* Store.SetActive
SetActive(name) ==
  /\ Holds(name)
  /\ \E res \in {"ok", "mkdir", "write"} :
       /\ last' = Ret("SetActive", name, IF res = "ok" THEN "" ELSE res, NoHost,
                      <<>>, <<>>)
       /\ rootExists' = (rootExists \/ res # "mkdir")
       /\ active' = IF res = "ok" THEN WriteActive(name) ELSE active
       /\ UNCHANGED <<dirs, remote, run, conf, procs>>

\* Store.RemoveActive
RemoveActive ==
  LET r == RemoveActiveFile IN
  /\ last' = Ret("RemoveActive", "", r.err, NoHost, <<>>, <<>>)
  /\ active' = r.active
  /\ UNCHANGED <<rootExists, dirs, remote, run, conf, procs>>

\* ------------------------------------------------------------- Store queries

ListCall ==
  LET r == List IN
  /\ last' = [Ret("List", "", r.err, NoHost, <<>>, <<>>) EXCEPT !.list = r.hosts]
  /\ UNCHANGED <<rootExists, dirs, active, remote, run, conf, procs>>

GetActiveCall ==
  LET r == GetActive IN
  /\ last' = Ret("GetActive", "", r.err, r.host, <<>>, <<>>)
  /\ UNCHANGED <<rootExists, dirs, active, remote, run, conf, procs>>

\* Host.GetState on a loaded host: the driver asks the provider.
GetStateCall(name) ==
  /\ Load(name).err = ""
  /\ LET h == Load(name).host IN
     IF name = "default"
       THEN LET r == DefaultGetState(h.d) IN
            /\ last' = [Ret("GetState", name, r.err, h, <<>>, <<>>)
                          EXCEPT !.st = r.st, !.panic = r.panic]
            /\ UNCHANGED <<rootExists, dirs, active, remote, run, conf, procs>>
       ELSE \E resp \in Responses :
            LET r == GetState(h.d, resp) IN
            /\ last' = [Ret("GetState", name, r.err, [h EXCEPT !.d = r.d], <<>>,
                            <<"DescribeInstances">>)
                          EXCEPT !.st = r.st, !.panic = r.panic, !.resp = resp]
            /\ UNCHANGED <<rootExists, dirs, active, remote, run, conf, procs>>

\* ------------------------------------------------------------ specification

Init ==
  /\ rootExists \in BOOLEAN
  /\ \E dflt \in BOOLEAN :
       /\ dflt => rootExists
       /\ dirs = [n \in HostNames |->
                    IF n = "default" /\ dflt THEN EmptyDir ELSE NoDir]
  /\ active = NoActive
  /\ remote = [next |-> 1, instances |-> {}, group |-> FALSE]
  /\ last = NoLast
  /\ run = NoRun
  /\ conf = NoConf
  /\ procs = NoProcs

Next ==
  \/ \E name \in HostNames, driverName \in DriverNames : Create(name, driverName)
  \/ \E name \in HostNames : Remove(name)
  \/ \E name \in HostNames : SetActive(name)
  \/ RemoveActive
  \/ ListCall
  \/ GetActiveCall

Spec == Init /\ [][Next]_vars

\* GetState on the hosts of a store that holds two created hosts: one
\* provisioned (it has its address), one created with NoProvision.
ProvisionedDriver ==
  DriverCreate(NewDriver, [next |-> 1, instances |-> {}, group |-> FALSE],
               "none", "4f1c", <<"up">>).d
UnprovisionedDriver ==
  DriverCreate([NewDriver EXCEPT !.InstanceName = "web", !.NoProvision = TRUE],
               [next |-> 2, instances |-> {"i-1"}, group |-> TRUE],
               "none", "4f1c", <<"up">>).d

InitGetState ==
  /\ rootExists = TRUE
  /\ \E da \in {ProvisionedDriver, UnprovisionedDriver},
        db \in {ProvisionedDriver, UnprovisionedDriver} :
       dirs = [n \in HostNames |->
                 IF n = "a" THEN SaveConfig([EmptyDir EXCEPT !.key = TRUE], da)
                 ELSE IF n = "b" THEN SaveConfig([EmptyDir EXCEPT !.key = TRUE], db)
                 ELSE NoDir]
  /\ active = NoActive
  /\ remote = [next |-> 3, instances |-> {"i-1", "i-2"}, group |-> TRUE]
  /\ last = NoLast
  /\ run = NoRun
  /\ conf = NoConf
  /\ procs = NoProcs


\* ------------------------------------------- the EC2 driver, step by step

MaxPolls == 1002       \* polls of provision's loop followed in one run

\* The requests, as the code fills url.Values.
CreateSecurityGroupRequest == [Action |-> "CreateSecurityGroup"]
AuthorizeRequest ==
  [Action |-> "AuthorizeSecurityGroupIngress", Ports |-> <<"22", "80", "2375">>]
CreateKeyPairRequest(d) == [Action |-> "CreateKeyPair", KeyName |-> d.KeyName]
RunInstancesRequestTwo(d) ==
  [Action |-> "RunInstances", MinCount |-> 1, MaxCount |-> 2, KeyName |-> d.KeyName]
RunInstancesRequest(d) ==
  [Action |-> "RunInstances", MinCount |-> 1, MaxCount |-> 1, KeyName |-> d.KeyName]
CreateTagsRequest(d) ==
  [Action |-> "CreateTags", ResourceId |-> d.InstanceId, Key |-> "Name",
   Value |-> d.InstanceName]
DeleteKeyPairRequest(d) == [Action |-> "DeleteKeyPair", KeyName |-> d.KeyName]
StandardRequest(action, d) == [Action |-> action, InstanceId |-> d.InstanceId]

\* What a request can meet: 200, a 400 or 500 status, or no response at all
\* (client.Do fails).
Answers == {"ok", "400", "500", "transport"}

\* The method returns err; provision's attempts goes out of scope.
Return(r, err) == [r EXCEPT !.err = err, !.pc = "done", !.attempts = 0]

\* The goroutine panics.
Panic(r) == [r EXCEPT !.panic = TRUE, !.pc = "done", !.attempts = 0]

\* makeAwsApiCall: the request goes out; when client.Do fails resp is nil and
\* `return *resp, ...` dereferences it.
makeAwsApiCall(r, req, answer) ==
  LET r1 == [r EXCEPT !.reqs = Append(@, req), !.answers = Append(@, answer)] IN
  IF answer = "transport" THEN Panic(r1) ELSE r1

Actions(reqs) == [i \in 1..Len(reqs) |-> reqs[i].Action]

\* r1 with the note of whether the step just taken met a success.
Noted(r, r1, good) == [r1 EXCEPT !.clean = r.clean /\ good]

\* Driver.Create, entered: setInstanceNameIfNotSet, then createSecurityGroup.
BeginCreate ==
  /\ run.pc = "idle"
  /\ \E rid \in RandomIDs :
       run' = [NoRun EXCEPT !.op = "Create", !.pc = "createSecurityGroup",
                            !.d = setInstanceNameIfNotSet(run, rid).d]
  /\ UNCHANGED <<rootExists, dirs, active, remote, last, conf, procs>>

\* What the CreateSecurityGroup call can meet: the group created (and its
\* answer decoded or not), 400 with the duplicate code, 400 with another
\* code, 400 with no error in the envelope, 400 with an envelope that does
\* not decode, 500, no response.
GroupAnswers ==
  {"ok", "okUndecodable", "dup", "400other", "400empty", "400undecodable",
   "500", "transport"}

\* Driver.createSecurityGroup up to its loop.
createGroupAlwaysAuthorize(r, answer) ==
  LET r1 == makeAwsApiCall(r, CreateSecurityGroupRequest, answer) IN
  IF r1.panic THEN r1
     ELSE IF answer = "400empty" THEN Panic(r1)
     ELSE IF answer \in {"400other", "400undecodable", "500", "okUndecodable"}
       THEN Return(r1, "Error creating security group")
     ELSE [r1 EXCEPT !.pc = "authorize", !.authAttempts = 0]
createGroup(r, answer) ==
  LET r1 == makeAwsApiCall(r, CreateSecurityGroupRequest, answer) IN
  IF r1.panic THEN r1
     ELSE IF answer = "dup" THEN [r1 EXCEPT !.pc = "createKeyPair"]
     ELSE IF answer = "400empty" THEN Panic(r1)
     ELSE IF answer \in {"400other", "400undecodable", "500", "okUndecodable"}
       THEN Return(r1, "Error creating security group")
     ELSE [r1 EXCEPT !.pc = "authorize", !.authAttempts = 0]

CreateSecurityGroupStep ==
  /\ run.pc = "createSecurityGroup"
  /\ \E answer \in GroupAnswers :
       /\ answer \in {"ok", "okUndecodable"} => ~remote.group
       /\ answer = "dup" => remote.group
       /\ run' = Noted(run, createGroup(run, answer), answer = "ok")
       /\ remote' = IF answer \in {"ok", "okUndecodable"}
                      THEN [remote EXCEPT !.group = TRUE] ELSE remote
  /\ UNCHANGED <<rootExists, dirs, active, last, conf, procs>>

\* One iteration of createSecurityGroup's loop: success returns, 400 goes on
\* to the next attempt, anything else is an error; the loop running out
\* returns nil.
authorizeRetryAll(r, answer) ==
  LET r1 == makeAwsApiCall(r, AuthorizeRequest, answer) IN
  IF r1.panic THEN r1
  ELSE IF answer = "ok" THEN [r1 EXCEPT !.pc = "createKeyPair"]
  ELSE IF r1.authAttempts + 1 < MAX_REQUEST_ATTEMPTS
         THEN [r1 EXCEPT !.authAttempts = @ + 1]
         ELSE [r1 EXCEPT !.authAttempts = @ + 1, !.pc = "createKeyPair"]
authorize(r, answer) ==
  LET r1 == makeAwsApiCall(r, AuthorizeRequest, answer) IN
  IF r1.panic THEN r1
  ELSE IF answer = "ok" THEN [r1 EXCEPT !.pc = "createKeyPair"]
  ELSE IF answer = "400"
    THEN IF r1.authAttempts + 1 < MAX_REQUEST_ATTEMPTS
           THEN [r1 EXCEPT !.authAttempts = @ + 1]
           ELSE [r1 EXCEPT !.authAttempts = @ + 1, !.pc = "createKeyPair"]
  ELSE Return(r1, "Error creating security group")

AuthorizeStep ==
  /\ run.pc = "authorize"
  /\ \E answer \in Answers :
       run' = Noted(run, authorize(run, answer), answer = "ok")
  /\ UNCHANGED <<rootExists, dirs, active, remote, last, conf, procs>>

\* What the CreateKeyPair call and the write of the key file can meet.
KeyPairAnswers == {"ok", "400", "500", "transport", "readfail", "badxml", "writefail"}

\* Driver.createKeyPair.  `if xml.Unmarshal(...); err != nil` tests the err of
\* ReadAll, so an answer that does not unmarshal goes on with empty key
\* material.
createKeyPairRun(r, answer) ==
  LET r0 == [r EXCEPT !.d.KeyName = r.d.InstanceName \o "-key"]
      r1 == makeAwsApiCall(r0, CreateKeyPairRequest(r0.d), answer)
  IN IF r1.panic THEN r1
     ELSE IF answer \in {"400", "500", "readfail", "writefail"}
       THEN Return(r1, "Error creating key pair")
     ELSE IF answer = "badxml"
       THEN [r1 EXCEPT !.keyFile = "empty", !.pc = "runInstance"]
     ELSE [r1 EXCEPT !.keyFile = "material", !.pc = "runInstance"]

CreateKeyPairStep ==
  /\ run.pc = "createKeyPair"
  /\ \E answer \in KeyPairAnswers :
       run' = Noted(run, createKeyPairRun(run, answer), answer = "ok")
  /\ UNCHANGED <<rootExists, dirs, active, remote, last, conf, procs>>

\* What the RunInstances call can meet; "noinstances" is a 200 answer that
\* lists no instance, where Instances[0] panics.
RunAnswers == {"ok", "400", "500", "transport", "readfail", "badxml", "noinstances"}

\* The instances the provider starts for a request: MaxCount of them.
Started(req, rem) ==
  [i \in 1..req.MaxCount |-> InstancePool[rem.next + i - 1]]

\* A Create that forgets the identifier of the instance it was handed.
runInstanceNoId(r, answer, rem) ==
  LET req == RunInstancesRequest(r.d)
      r1 == makeAwsApiCall(r, req, answer)
  IN IF r1.panic THEN r1
     ELSE IF answer = "noinstances" THEN Panic(r1)
     ELSE IF answer # "ok" THEN Return(r1, "Error running the EC2 instance")
     ELSE [r1 EXCEPT !.pc = IF r.d.NoProvision THEN "tagInstance" ELSE "poll",
                     !.attempts = 0]

\* A Create that provisions whatever NoProvision says.
runInstanceAlwaysProvision(r, answer, rem) ==
  LET req == RunInstancesRequest(r.d)
      r1 == makeAwsApiCall(r, req, answer)
  IN IF r1.panic THEN r1
     ELSE IF answer = "noinstances" THEN Panic(r1)
     ELSE IF answer # "ok" THEN Return(r1, "Error running the EC2 instance")
     ELSE [r1 EXCEPT !.d.InstanceId = Started(req, rem)[1],
                     !.pc = "poll", !.attempts = 0]
\* Driver.runInstance, the assignment of d.InstanceId and the choice of
\* provisioning in Driver.Create.
runInstanceRun(r, answer, rem) ==
  LET req == RunInstancesRequest(r.d)
      r1 == makeAwsApiCall(r, req, answer)
  IN IF r1.panic THEN r1
     ELSE IF answer = "noinstances" THEN Panic(r1)
     ELSE IF answer # "ok" THEN Return(r1, "Error running the EC2 instance")
     ELSE [r1 EXCEPT !.d.InstanceId = Started(req, rem)[1],
                     !.pc = IF r.d.NoProvision THEN "tagInstance" ELSE "poll",
                     !.attempts = 0]

RunInstanceStep ==
  /\ run.pc = "runInstance"
  /\ \E answer \in RunAnswers :
       /\ run' = Noted(run, runInstanceRun(run, answer, remote), answer = "ok")
       /\ remote' =
            IF answer = "ok"
              THEN LET ids == Started(RunInstancesRequest(run.d), remote) IN
                   [remote EXCEPT !.instances = @ \cup {ids[i] : i \in 1..Len(ids)},
                                  !.next = @ + Len(ids)]
              ELSE remote
  /\ UNCHANGED <<rootExists, dirs, active, last, conf, procs>>

\* What a poll of provision's loop can get from DescribeInstances: no
\* response, a failed request, an answer without reservations, an instance
\* without a public address yet, an instance with one.
PollResponses ==
  { [fail |-> "transport", ReservationSet |-> <<>>],
    [fail |-> "api call", ReservationSet |-> <<>>],
    [fail |-> "", ReservationSet |-> <<>>],
    Described(<<"pending">>, ""),
    Described(<<"running">>, "10.0.0.1") }

Dials == {"refused", "up"}

\* The poll met no failure: the state came back, and the dial, if one was
\* made, connected.
PollSucceeds(r, resp, dial) ==
  /\ resp.fail = ""
  /\ ~GetState(r.d, resp).panic
  /\ GetState(r.d, resp).d.IPAddress # "" => dial = "up"

\* One iteration of provision's loop; the DescribeInstances requests of the
\* loop are counted in attempts, not listed in reqs.
pollOnceGiveUp(r, resp, dial) ==
  IF resp.fail = "transport" THEN Panic(r)
  ELSE LET g == GetState(r.d, resp)
           r1 == [r EXCEPT !.d = g.d, !.attempts = @ + 1]
           bootstrap == [r1 EXCEPT !.attempts = 0,
                           !.pc = IF r.d.NoInstall THEN "options" ELSE "install"]
       IN IF g.panic THEN Panic(r1)
          ELSE IF g.err # "" THEN Return(r1, "Error getting instance state")
          ELSE IF r1.d.IPAddress = "" THEN r1
          ELSE IF dial = "up" THEN [bootstrap EXCEPT !.probed = TRUE]
          ELSE IF r1.attempts < MAX_SSH_CONNECTION_ATTEMPTS THEN r1
          ELSE bootstrap
\* A loop that looks at the ceiling before it looks at the address.
pollOnceCeilingFirst(r, resp, dial) ==
  IF resp.fail = "transport" THEN Panic(r)
  ELSE LET g == GetState(r.d, resp)
           r1 == [r EXCEPT !.d = g.d, !.attempts = @ + 1]
       IN IF g.panic THEN Panic(r1)
          ELSE IF g.err # "" THEN Return(r1, "Error getting instance state")
          ELSE IF r1.d.IPAddress # "" /\ dial = "up"
            THEN [r1 EXCEPT !.probed = TRUE, !.attempts = 0,
                            !.pc = IF r.d.NoInstall THEN "options" ELSE "install"]
          ELSE IF r1.attempts < MAX_SSH_CONNECTION_ATTEMPTS THEN r1
          ELSE Return(r1, "SSH max attempts exceeded")
pollOnce(r, resp, dial) ==
  IF resp.fail = "transport" THEN Panic(r)
  ELSE LET g == GetState(r.d, resp)
           r1 == [r EXCEPT !.d = g.d, !.attempts = @ + 1]
       IN IF g.panic THEN Panic(r1)
          ELSE IF g.err # "" THEN Return(r1, "Error getting instance state")
          ELSE IF r1.d.IPAddress = "" THEN r1
          ELSE IF dial = "up"
            THEN [r1 EXCEPT !.probed = TRUE, !.attempts = 0,
                            !.pc = IF r.d.NoInstall THEN "options" ELSE "install"]
          ELSE IF r1.attempts < MAX_SSH_CONNECTION_ATTEMPTS THEN r1
          ELSE Return(r1, "SSH max attempts exceeded")

PollStep ==
  /\ run.pc = "poll"
  /\ run.attempts < MaxPolls
  /\ \E resp \in PollResponses, dial \in Dials :
       run' = Noted(run, pollOnce(run, resp, dial), PollSucceeds(run, resp, dial))
  /\ UNCHANGED <<rootExists, dirs, active, remote, last, conf, procs>>

\* One bootstrap command of provision, run over SSH.
sshCommandIgnoreError(r, cmd, ok, next) ==
  [r EXCEPT !.cmds = Append(@, [cmd |-> cmd, ok |-> ok]), !.pc = next]
sshCommand(r, cmd, ok, next) ==
  LET r1 == [r EXCEPT !.cmds = Append(@, [cmd |-> cmd, ok |-> ok])] IN
  IF ok THEN [r1 EXCEPT !.pc = next] ELSE Return(r1, "Error running " \o cmd)

InstallStep ==
  /\ run.pc = "install"
  /\ \E ok \in BOOLEAN :
       run' = Noted(run, sshCommand(run, "install", ok, "options"), ok)
  /\ UNCHANGED <<rootExists, dirs, active, remote, last, conf, procs>>

OptionsStep ==
  /\ run.pc = "options"
  /\ \E ok \in BOOLEAN :
       run' = Noted(run, sshCommand(run, "options", ok, "restart"), ok)
  /\ UNCHANGED <<rootExists, dirs, active, remote, last, conf, procs>>

RestartStep ==
  /\ run.pc = "restart"
  /\ \E ok \in BOOLEAN :
       run' = Noted(run, sshCommand(run, "restart", ok, "tagInstance"), ok)
  /\ UNCHANGED <<rootExists, dirs, active, remote, last, conf, procs>>

\* A tagInstance that terminates the instance when the tags fail.
tagInstanceRollback(r, answer) ==
  LET r1 == makeAwsApiCall(r, CreateTagsRequest(r.d), answer) IN
  IF r1.panic THEN r1
  ELSE IF answer # "ok"
    THEN Return(makeAwsApiCall(r1, StandardRequest("TerminateInstances", r.d), "ok"),
                "Error tagging instance name")
  ELSE Return(r1, "")

\* Driver.tagInstance and the end of Driver.Create.
tagInstanceRun(r, answer) ==
  LET r1 == makeAwsApiCall(r, CreateTagsRequest(r.d), answer) IN
  IF r1.panic THEN r1
  ELSE IF answer # "ok" THEN Return(r1, "Error tagging instance name")
  ELSE Return(r1, "")

TagInstanceStep ==
  /\ run.pc = "tagInstance"
  /\ \E answer \in Answers :
       run' = Noted(run, tagInstanceRun(run, answer), answer = "ok")
  /\ UNCHANGED <<rootExists, dirs, active, remote, last, conf, procs>>

\* Driver.performStandardAction for a method entered afresh.
Entered(op) == [NoRun EXCEPT !.op = op, !.pc = "done", !.d = run.d]

\* A performStandardAction that drops the address once the request went through.
performStandardActionForget(r, action, answer) ==
  LET r1 == makeAwsApiCall(r, StandardRequest(action, r.d), answer) IN
  IF r1.panic THEN r1
  ELSE IF answer # "ok" THEN Return(r1, "Problem with AWS API call")
  ELSE Return([r1 EXCEPT !.d.IPAddress = "", !.d.PublicDnsName = ""], "")
performStandardAction(r, action, answer) ==
  LET r1 == makeAwsApiCall(r, StandardRequest(action, r.d), answer) IN
  IF r1.panic THEN r1
  ELSE IF answer # "ok" THEN Return(r1, "Problem with AWS API call")
  ELSE Return(r1, "")

\* A driver method can be entered when no other is running and the process
\* has not panicked.
Callable == run.pc \in {"idle", "done"} /\ ~run.panic

Lifecycle(op, action) ==
  /\ Callable
  /\ \E answer \in Answers :
       run' = Noted(NoRun, performStandardAction(Entered(op), action, answer),
                    answer = "ok")
  /\ UNCHANGED <<rootExists, dirs, active, remote, last, conf, procs>>

\* Driver.Start, Stop, Restart, Kill
Start == Lifecycle("Start", "StartInstances")
Stop == Lifecycle("Stop", "StopInstances")
Restart == Lifecycle("Restart", "RebootInstances")
KillTerminate == Lifecycle("Kill", "TerminateInstances")
Kill == Lifecycle("Kill", "StopInstances")

\* Driver.deleteKeyPair
deleteKeyPair(r, answer) ==
  LET r1 == makeAwsApiCall(r, DeleteKeyPairRequest(r.d), answer) IN
  IF r1.panic THEN r1
  ELSE IF answer # "ok" THEN Return(r1, "Error making API call to delete keypair")
  ELSE r1

\* Driver.Remove: the key pair first, then the instance.
driverRemove(r, keyAnswer, answer) ==
  LET r1 == deleteKeyPair(r, keyAnswer) IN
  IF r1.panic \/ r1.err # "" THEN r1
  ELSE performStandardAction(r1, "TerminateInstances", answer)

DriverRemoveStep ==
  /\ Callable
  /\ \E keyAnswer \in Answers, answer \in Answers :
       LET r == driverRemove(Entered("Remove"), keyAnswer, answer) IN
       /\ run' = Noted(NoRun, r, keyAnswer = "ok" /\ answer = "ok")
       /\ remote' = IF ~r.panic /\ r.err = ""
                      THEN [remote EXCEPT !.instances = @ \ {run.d.InstanceId}]
                      ELSE remote
  /\ UNCHANGED <<rootExists, dirs, active, last, conf, procs>>

\* The request of Driver.GetState.
DescribeInstancesRequestReboot(d) == StandardRequest("RebootInstances", d)
DescribeInstancesRequest(d) == StandardRequest("DescribeInstances", d)

\* Driver.GetState, called on its own.
DriverGetStateStep ==
  /\ Callable
  /\ \E resp \in Responses \cup {[fail |-> "transport", ReservationSet |-> <<>>]} :
       LET r == makeAwsApiCall(Entered("GetState"),
                               DescribeInstancesRequest(run.d),
                               resp.fail)
           g == GetState(run.d, resp)
       IN run' = IF r.panic THEN [r EXCEPT !.resp = resp]
                 ELSE IF g.panic THEN [Panic(r) EXCEPT !.resp = resp]
                 ELSE [Return(r, g.err) EXCEPT !.st = g.st, !.d = g.d, !.resp = resp]
  /\ UNCHANGED <<rootExists, dirs, active, remote, last, conf, procs>>

\* Driver.GetURL and Driver.GetIP, called on their own.
GetURLStep ==
  /\ Callable
  /\ run' = [Return(Entered("GetURL"), "") EXCEPT !.out = GetURL(run.d)]
  /\ UNCHANGED <<rootExists, dirs, active, remote, last, conf, procs>>

GetIPStep ==
  /\ Callable
  /\ LET g == GetIP(run.d) IN
     run' = [Return(Entered("GetIP"), g.err) EXCEPT !.out = g.ip]
  /\ UNCHANGED <<rootExists, dirs, active, remote, last, conf, procs>>

\* The remote action behind each lifecycle method of the EC2 driver.
LifecycleOps == {"Start", "Stop", "Restart", "Kill"}
ActionOf(op) ==
  IF op = "Start" THEN "StartInstances"
  ELSE IF op = "Restart" THEN "RebootInstances"
  ELSE "StopInstances"

\* DefaultDriver.Start, Stop, Restart, Kill: no request, an error.
DefaultLifecycle(op) ==
  IF op = "Start" THEN "default host cannot be started"
  ELSE IF op = "Stop" THEN "default host cannot be stopped"
  ELSE IF op = "Restart" THEN "default host cannot be restarted"
  ELSE "default host cannot be killed"

\* A lifecycle method called on the driver of a loaded host.
HostLifecycleCall(name, op) ==
  /\ Load(name).err = ""
  /\ LET h == Load(name).host IN
     IF name = "default"
       THEN last' = Ret(op, name, DefaultLifecycle(op), h, <<>>, <<>>)
       ELSE \E answer \in Answers :
              LET r == performStandardAction([NoRun EXCEPT !.op = op, !.d = h.d],
                                             ActionOf(op), answer)
              IN last' = [Ret(op, name, r.err, [h EXCEPT !.d = r.d], <<>>,
                              Actions(r.reqs))
                            EXCEPT !.panic = r.panic]
  /\ UNCHANGED <<rootExists, dirs, active, remote, run, conf, procs>>
\* The callers of a store that holds created hosts: state queries and
\* lifecycle methods on the hosts it loads.
NextGetState ==
  \/ \E name \in HostNames : GetStateCall(name)
  \/ \E name \in HostNames, op \in LifecycleOps : HostLifecycleCall(name, op)

SpecGetState == InitGetState /\ [][NextGetState]_vars

\* The drivers a Create starts from: SetConfigFromFlags applied to flags
\* with and without a name, installation and provisioning.
ConfiguredDrivers ==
  { SetConfigFromFlags(NewDriver, Flags(FALSE, "AK", "SK", iname, ni, np),
                       [AWS_ACCESS_KEY_ID |-> "", AWS_SECRET_ACCESS_KEY |-> ""]).d :
      iname \in {"", "web"}, ni \in BOOLEAN, np \in BOOLEAN }

InitDriver ==
  /\ rootExists = TRUE
  /\ dirs = [n \in HostNames |-> NoDir]
  /\ active = NoActive
  /\ remote \in { [next |-> 1, instances |-> {}, group |-> g] : g \in BOOLEAN }
  /\ last = NoLast
  /\ run \in { [NoRun EXCEPT !.d = d] : d \in ConfiguredDrivers }
  /\ conf = NoConf
  /\ procs = NoProcs

NextDriver ==
  \/ BeginCreate
  \/ CreateSecurityGroupStep
  \/ AuthorizeStep
  \/ CreateKeyPairStep
  \/ RunInstanceStep
  \/ PollStep
  \/ InstallStep
  \/ OptionsStep
  \/ RestartStep
  \/ TagInstanceStep
  \/ Start
  \/ Stop
  \/ Restart
  \/ Kill
  \/ DriverRemoveStep
  \/ DriverGetStateStep
  \/ GetURLStep
  \/ GetIPStep

SpecDriver == InitDriver /\ [][NextDriver]_vars

\* ------------------------------------------- Store.Create and its flags

\* The flags a command line can give: credentials given or left out, region
\* and image id at their defaults or set.
CredentialFlags ==
  { Flags(FALSE, ak, sk, "web", TRUE, TRUE) : ak \in {"", "AK"}, sk \in {"", "SK"} }
ConfigFlags ==
  CredentialFlags
  \cup { FlagsIn(Flags(FALSE, "AK", "SK", "", FALSE, FALSE), region, image) :
           region \in {DEFAULT_REGION, "eu-west-1"},
           image \in {DEFAULT_IMAGE_ID, "ami-0b1c2d3e"} }

\* The environments the process can be started in.
ConfigEnvs ==
  { [NoEnv EXCEPT !.AWS_ACCESS_KEY_ID = ak, !.AWS_SECRET_ACCESS_KEY = sk] :
      ak \in {"", "EAK"}, sk \in {"", "ESK"} }

\* `docker hosts create`: Store.Create with the flags of the command line,
\* in the environment of the process.
CreateCommand(name, driverName) ==
  CreateWith(name, driverName, {conf.flags}, {conf.env})

InitConfig ==
  /\ rootExists \in BOOLEAN
  /\ dirs = [n \in HostNames |-> NoDir]
  /\ active = NoActive
  /\ remote = [next |-> 1, instances |-> {}, group |-> FALSE]
  /\ last = NoLast
  /\ run = NoRun
  /\ conf \in { [NoConf EXCEPT !.flags = flags, !.env = env] :
                  flags \in ConfigFlags, env \in ConfigEnvs }
  /\ procs = NoProcs

NextConfig ==
  \/ \E name \in HostNames, driverName \in DriverNames : CreateCommand(name, driverName)
  \/ \E name \in HostNames : Remove(name)

SpecConfig == InitConfig /\ [][NextConfig]_vars

\* ------------------------------------------------ the config value resolver

\* The ConfigHierarchy each getter of HostConfig builds.
DefaultHost == "unix:///var/run/docker.sock"
DefaultCertPath == "~/.docker"
Hierarchy(op) ==
  IF op = "GetHost"
    THEN [EnvVar |-> "DOCKER_HOST", JsonKey |-> "Host", Default |-> StrV(DefaultHost)]
  ELSE IF op = "GetTlsVerify"
    THEN [EnvVar |-> "DOCKER_TLS_VERIFY", JsonKey |-> "TlsVerify",
          Default |-> StrV("false")]
  ELSE [EnvVar |-> "DOCKER_CERT_PATH", JsonKey |-> "CertPath",
        Default |-> StrV(DefaultCertPath)]

\* HostConfig.getConfigValue
getConfigValuePersistedFirst(c, hierarchy) ==
  LET envVal == c.env[hierarchy.EnvVar] IN
  IF ~c.nil /\ c.settings[hierarchy.JsonKey] # NilV
    THEN c.settings[hierarchy.JsonKey]
  ELSE IF envVal # "" THEN StrV(envVal)
  ELSE hierarchy.Default
getConfigValue(c, hierarchy) ==
  LET envVal == c.env[hierarchy.EnvVar] IN
  IF envVal = ""
    THEN IF ~c.nil /\ c.settings[hierarchy.JsonKey] # NilV
           THEN c.settings[hierarchy.JsonKey]
           ELSE hierarchy.Default
    ELSE StrV(envVal)

\* strconv.ParseBool
TrueStrings == {"1", "t", "T", "TRUE", "true", "True"}
FalseStrings == {"0", "f", "F", "FALSE", "false", "False"}
ParseBoolLenient(str) ==
  IF str \in TrueStrings THEN [val |-> TRUE, err |-> ""]
  ELSE [val |-> FALSE, err |-> ""]
ParseBool(str) ==
  IF str \in TrueStrings THEN [val |-> TRUE, err |-> ""]
  ELSE IF str \in FalseStrings THEN [val |-> FALSE, err |-> ""]
  ELSE [val |-> FALSE, err |-> "invalid syntax"]

\* What a getter leaves behind: the value returned, or the process ended by
\* log.Fatal, or a panic.
Got(c, op, v) == [c EXCEPT !.op = op, !.out = v]
Fatal(c, op) == [c EXCEPT !.op = op, !.out = NilV, !.fatal = TRUE]
Panicked(c, op) == [c EXCEPT !.op = op, !.out = NilV, !.panic = TRUE]

\* HostConfig.GetHost and GetCertPath: the value asserted to be a string.
GetString(c, op) ==
  LET v == getConfigValue(c, Hierarchy(op)) IN
  IF v.type = "string" THEN Got(c, op, v) ELSE Panicked(c, op)

\* HostConfig.GetTlsVerify
GetTlsVerify(c) ==
  LET configVal == getConfigValue(c, Hierarchy("GetTlsVerify")) IN
  IF configVal.type = "bool" THEN Got(c, "GetTlsVerify", configVal)
  ELSE IF configVal.type = "string"
    THEN LET b == ParseBool(configVal.val) IN
         IF b.err # "" THEN Fatal(c, "GetTlsVerify")
         ELSE Got(c, "GetTlsVerify", BoolV(b.val))
  ELSE Fatal(c, "GetTlsVerify")

\* A getter can be called while the process lives.
Alive == ~conf.fatal /\ ~conf.panic

GetHostCall ==
  /\ Alive
  /\ conf' = GetString(conf, "GetHost")
  /\ UNCHANGED <<rootExists, dirs, active, remote, last, run, procs>>

GetCertPathCall ==
  /\ Alive
  /\ conf' = GetString(conf, "GetCertPath")
  /\ UNCHANGED <<rootExists, dirs, active, remote, last, run, procs>>

GetTlsVerifyCall ==
  /\ Alive
  /\ conf' = GetTlsVerify(conf)
  /\ UNCHANGED <<rootExists, dirs, active, remote, last, run, procs>>

\* The environments and the persisted settings a process can start with.
ResolverEnvs ==
  { [NoEnv EXCEPT !.DOCKER_HOST = h, !.DOCKER_TLS_VERIFY = t, !.DOCKER_CERT_PATH = c] :
      h \in {"", "unix:///tmp/x.sock"}, t \in {"", "1", "true", "0", "yes"},
      c \in {"", "/certs"} }

ResolverSettings ==
  { [Host |-> h, TlsVerify |-> t, CertPath |-> c] :
      h \in {NilV, StrV("tcp://1.2.3.4:2375"), StrV(""), NumV("2375")},
      t \in {NilV, BoolV(TRUE), BoolV(FALSE), StrV("true"), StrV("F"),
             StrV("maybe"), StrV(""), NumV("1")},
      c \in {NilV, StrV("/etc/docker")} }

InitResolver ==
  /\ rootExists = FALSE
  /\ dirs = [n \in HostNames |-> NoDir]
  /\ active = NoActive
  /\ remote = [next |-> 1, instances |-> {}, group |-> FALSE]
  /\ last = NoLast
  /\ run = NoRun
  /\ procs = NoProcs
  /\ \E env \in ResolverEnvs :
       \/ conf = [NoConf EXCEPT !.env = env]
       \/ \E settings \in ResolverSettings :
            conf = [NoConf EXCEPT !.env = env, !.nil = FALSE, !.settings = settings]

NextResolver ==
  \/ GetHostCall
  \/ GetCertPathCall
  \/ GetTlsVerifyCall

SpecResolver == InitResolver /\ [][NextResolver]_vars

\* --------------------------------------- Store.Create, two calls side by side

\* os.MkdirAll(hostPath, 0700): a directory that is there already is no
\* error; ok is whether the file system lets the call through.
MkdirExclusive(dir, ok) ==
  IF ~ok THEN [err |-> "mkdir", dir |-> dir]
  ELSE IF dir.exists THEN [err |-> "file exists", dir |-> dir]
  ELSE [err |-> "", dir |-> EmptyDir]
MkdirAll(dir, ok) ==
  IF ~ok THEN [err |-> "mkdir", dir |-> dir]
  ELSE IF dir.exists THEN [err |-> "", dir |-> dir]
  ELSE [err |-> "", dir |-> EmptyDir]

\* The flags of the racing calls.
RaceFlags == { Flags(FALSE, "AK", "SK", "", FALSE, TRUE) }

Returned(proc, err) == [proc EXCEPT !.pc = "done", !.err = err]

\* Store.Create up to os.MkdirAll: Exists, NewHost, SetConfigFromFlags.
CreateCheck(p, name) ==
  /\ procs[p].pc = "idle"
  /\ LET proc == [procs[p] EXCEPT !.name = name] IN
     IF Exists(name)
       THEN procs' = [procs EXCEPT ![p] = Returned(proc, "already exists")]
     ELSE \E flags \in RaceFlags :
       LET nh == NewHost(name, "ec2")
           cfg == SetConfigFromFlags(nh.host.d, flags, NoEnv)
           host == [nh.host EXCEPT !.d = cfg.d]
       IN IF nh.err # ""
            THEN procs' = [procs EXCEPT ![p] = Returned(proc, nh.err)]
          ELSE IF cfg.err # ""
            THEN procs' = [procs EXCEPT ![p] = Returned([proc EXCEPT !.host = host], cfg.err)]
          ELSE procs' = [procs EXCEPT ![p] = [proc EXCEPT !.host = host, !.pc = "mkdir"]]
  /\ UNCHANGED <<rootExists, dirs, active, remote, last, run, conf>>

\* Store.Create: os.MkdirAll(hostPath, 0700).
CreateMkdirAll(p) ==
  /\ procs[p].pc = "mkdir"
  /\ \E ok \in BOOLEAN :
       LET name == procs[p].name
           m == MkdirAll(dirs[name], ok)
       IN IF m.err # ""
            THEN /\ procs' = [procs EXCEPT ![p] = Returned([@ EXCEPT !.host = NoHost], m.err)]
                 /\ UNCHANGED <<rootExists, dirs>>
            ELSE /\ procs' = [procs EXCEPT ![p].pc = "create"]
                 /\ dirs' = [dirs EXCEPT ![name] = m.dir]
                 /\ rootExists' = TRUE
  /\ UNCHANGED <<active, remote, last, run, conf>>

\* Store.Create: host.Create(), that is Driver.Create in the directory.
CreateHost(p) ==
  /\ procs[p].pc = "create"
  /\ \E failAt \in FailPoints \ {"ssh install", "ssh options", "ssh restart"},
        rid \in RandomIDs :
       LET name == procs[p].name
           c == DriverCreate(procs[p].host.d, remote, failAt, rid, <<"up">>)
           proc == [procs[p] EXCEPT !.host.d = c.d, !.calls = c.calls]
       IN /\ CreateAccess(procs[p].host.d, remote, failAt, rid).err = ""
               => remote.next <= MaxRemote
          /\ procs' = [procs EXCEPT ![p] = IF c.err # "" THEN Returned(proc, c.err)
                                           ELSE [proc EXCEPT !.pc = "save"]]
          /\ remote' = c.remote
          /\ dirs' = [dirs EXCEPT ![name].key = @ \/ c.key]
  /\ UNCHANGED <<rootExists, active, last, run, conf>>

\* Store.Create: host.SaveConfig().
CreateSave(p) ==
  /\ procs[p].pc = "save"
  /\ \E saveOk \in BOOLEAN :
       LET name == procs[p].name IN
       IF saveOk
         THEN /\ procs' = [procs EXCEPT ![p] = Returned(@, "")]
              /\ dirs' = [dirs EXCEPT ![name] = SaveConfig(@, procs[p].host.d)]
         ELSE /\ procs' = [procs EXCEPT ![p] = Returned(@, "save config")]
              /\ UNCHANGED dirs
  /\ UNCHANGED <<rootExists, active, remote, last, run, conf>>

InitRace ==
  /\ rootExists \in BOOLEAN
  /\ dirs = [n \in HostNames |-> NoDir]
  /\ active = NoActive
  /\ remote = [next |-> 1, instances |-> {}, group |-> FALSE]
  /\ last = NoLast
  /\ run = NoRun
  /\ conf = NoConf
  /\ procs = NoProcs

NextRace ==
  \/ \E p \in Procs, name \in HostNames : CreateCheck(p, name)
  \/ \E p \in Procs : CreateMkdirAll(p)
  \/ \E p \in Procs : CreateHost(p)
  \/ \E p \in Procs : CreateSave(p)

SpecRace == InitRace /\ [][NextRace]_vars

\* ------------------------------------ Store.SetActive, two calls side by side

\* []byte(host.Name): the bytes ioutil.WriteFile is given.
Bytes(name) ==
  CASE name = "a" -> <<"a">>
    [] name = "b" -> <<"b">>
    [] name = "default" -> <<"d", "e", "f", "a", "u", "l", "t">>
    [] OTHER -> <<>>

\* string(hostName): the file's bytes as GetActive reads them.
RECURSIVE Text(_)
Text(bytes) == IF bytes = <<>> THEN "" ELSE Head(bytes) \o Text(Tail(bytes))

\* ioutil.WriteFile, first half: os.OpenFile with O_WRONLY|O_CREATE|O_TRUNC
\* leaves an empty file; the file given is the one on disk at that moment.
OpenFile(file) == [present |-> TRUE, name |-> "", bytes |-> <<>>]

\* ioutil.WriteFile, second half: f.Write(data) puts the bytes at the
\* descriptor's offset, which is 0 after the open, over whatever the file
\* holds by then; bytes beyond the data stay.
Write(file, data) ==
  LET bytes == data \o SubSeq(file.bytes, Len(data) + 1, Len(file.bytes)) IN
  [present |-> TRUE, name |-> Text(bytes), bytes |-> bytes]

\* Store.SetActive: os.MkdirAll of the store root.
SetActiveMkdirAll(p, name) ==
  /\ procs[p].pc = "idle"
  /\ Holds(name)
  /\ \E ok \in BOOLEAN :
       /\ procs' = [procs EXCEPT ![p] =
                      IF ok THEN [@ EXCEPT !.name = name, !.pc = "open"]
                      ELSE Returned([@ EXCEPT !.name = name], "mkdir")]
       /\ rootExists' = (rootExists \/ ok)
  /\ UNCHANGED <<dirs, active, remote, last, run, conf>>

\* Store.SetActive: ioutil.WriteFile opens the pointer file.
SetActiveOpen(p) ==
  /\ procs[p].pc = "open"
  /\ \E ok \in BOOLEAN :
       IF ok
         THEN /\ procs' = [procs EXCEPT ![p].pc = "write"]
              /\ active' = OpenFile(active)
         ELSE /\ procs' = [procs EXCEPT ![p] = Returned(@, "open")]
              /\ UNCHANGED active
  /\ UNCHANGED <<rootExists, dirs, remote, last, run, conf>>

\* Store.SetActive: ioutil.WriteFile writes the name and closes the file.
\* last.trace keeps the names written, in the order of the writes.
SetActiveWrite(p) ==
  /\ procs[p].pc = "write"
  /\ procs' = [procs EXCEPT ![p] = Returned(@, "")]
  /\ active' = Write(active, Bytes(procs[p].name))
  /\ last' = Ret("SetActive", procs[p].name, "", NoHost,
                 Append(last.trace, procs[p].name), <<>>)
  /\ UNCHANGED <<rootExists, dirs, remote, run, conf>>

\* Store.GetActive called by one of the processes that is not in SetActive.
GetActiveBy(p) ==
  /\ procs[p].pc \in {"idle", "done"}
  /\ LET r == GetActive IN
     procs' = [procs EXCEPT ![p].host = r.host, ![p].err = r.err]
  /\ UNCHANGED <<rootExists, dirs, active, remote, last, run, conf>>

InitActive ==
  /\ rootExists = TRUE
  /\ dirs = [n \in HostNames |->
               IF n = "default" THEN NoDir
               ELSE SaveConfig([EmptyDir EXCEPT !.key = TRUE], UnprovisionedDriver)]
  /\ active = [present |-> FALSE, name |-> "", bytes |-> <<>>]
  /\ remote = [next |-> 3, instances |-> {"i-1", "i-2"}, group |-> TRUE]
  /\ last = NoLast
  /\ run = NoRun
  /\ conf = NoConf
  /\ procs = NoProcs

NextActive ==
  \/ \E p \in Procs, name \in HostNames : SetActiveMkdirAll(p, name)
  \/ \E p \in Procs : SetActiveOpen(p)
  \/ \E p \in Procs : SetActiveWrite(p)
  \/ \E p \in Procs : GetActiveBy(p)

SpecActive == InitActive /\ [][NextActive]_vars

\* ------------------------------------------------------------- State.String

MaxState == 50         \* State values tried: -MaxState .. MaxState

\* var states: the names, states[1] being the name of State 0.
states == <<"", "Running", "Paused", "Saved", "Stopped", "Starting", "Error">>

\* State.String: the test is against len(states)-1; states[s] with a
\* negative index is a run-time panic.
String(s) ==
  IF s < Len(states) - 1
    THEN IF s < 0 THEN [out |-> "", panic |-> TRUE]
         ELSE [out |-> states[s + 1], panic |-> FALSE]
    ELSE [out |-> "", panic |-> FALSE]

\* s.String() for the State value kept in last.st.
StringCall ==
  /\ conf.op = "none"
  /\ LET r == String(last.st) IN
     conf' = [conf EXCEPT !.op = "String", !.out = StrV(r.out), !.panic = r.panic]
  /\ UNCHANGED <<rootExists, dirs, active, remote, last, run, procs>>

InitString ==
  /\ rootExists = TRUE
  /\ dirs = [n \in HostNames |-> NoDir]
  /\ active = NoActive
  /\ remote = [next |-> 1, instances |-> {}, group |-> FALSE]
  /\ last \in { [NoLast EXCEPT !.st = s] : s \in (0 - MaxState)..MaxState }
  /\ run = NoRun
  /\ conf = NoConf
  /\ procs = NoProcs

NextString == StringCall

SpecString == InitString /\ [][NextString]_vars


\* ------------------------------------------------------------------ claims

Disk == <<rootExists, dirs, active>>
ListNames == HostNamesOf(List.hosts)
Has(seq, x) == \E i \in 1..Len(seq) : seq[i] = x
IndexOf(seq, x) == CHOOSE i \in 1..Len(seq) : seq[i] = x

\* C1: a Create for a name whose directory is already there fails as a
\* duplicate, returns no host, leaves the root, every host directory and the
\* active pointer as they were, and sends nothing to the provider.
C1_DuplicateCreateTouchesNothing ==
  [][ \A n \in HostNames :
        (last'.op = "Create" /\ last'.name = n /\ dirs[n].exists /\ n # "default")
          => /\ last'.err = "already exists"
             /\ last'.host = NoHost
             /\ last'.calls = <<>>
             /\ Disk' = Disk
             /\ remote' = remote ]_vars

C1_Witness ==
  /\ last.op = "Create"
  /\ last.name # "default"
  /\ last.err = "already exists"
  /\ dirs[last.name].exists

\* C2: "default" exists in every reachable state, on the word of Exists and
\* of Load, with or without a directory of that name; a Create of "default"
\* fails as a duplicate and a Remove of "default" returns an error.
C2_DefaultAlwaysExists ==
  /\ Exists("default")
  /\ Load("default").err = ""
  /\ (last.op = "Create" /\ last.name = "default") => last.err = "already exists"
  /\ (last.op = "Remove" /\ last.name = "default") => last.err # ""

C2_Witness ==
  /\ last.op = "Remove"
  /\ last.name = "default"
  /\ last.err = "default driver cannot be removed"
  /\ ~dirs["default"].exists

\* C3: in every reachable state List succeeds and names "default" exactly
\* once (root missing, root empty, root holding a directory "default");
\* every other entry is a directory of the root and is listed once.
C3_ListDefaultOnce ==
  /\ List.err = ""
  /\ Count(ListNames, "default") = 1
  /\ \A i \in 1..Len(ListNames) :
       ListNames[i] # "default"
         => /\ ListNames[i] \in HostNames
            /\ dirs[ListNames[i]].exists
            /\ Count(ListNames, ListNames[i]) = 1
  /\ last.op = "List" => (last.err = "" /\ last.list = List.hosts)

C3_Witness ==
  /\ last.op = "List"
  /\ dirs["default"].exists
  /\ Len(last.list) = 3

\* C4: with no pointer file, GetActive returns the default host and no
\* error.
C4_NoPointerMeansDefault ==
  ~active.present
    => /\ GetActive.err = ""
       /\ GetActive.host.Name = "default"
       /\ last.op = "GetActive" => (last.err = "" /\ last.host.Name = "default")

C4_Witness ==
  /\ last.op = "GetActive"
  /\ ~active.present
  /\ last.host.Name = "default"
  /\ \E n \in HostNames : n # "default" /\ dirs[n].saved

\* C5 as claimed: after a successful SetActive(h) for a host that exists in
\* the store, GetActive returns a host named h.Name.
C5_Original ==
  (last.op = "SetActive" /\ last.err = "" /\ Exists(last.name))
    => /\ GetActive.err = ""
       /\ GetActive.host.Name = last.name

\* C5 as amended: after a successful SetActive(h) for a host the store can
\* load (the default host, or one whose descriptor was saved), GetActive
\* returns a host named h.Name.
C5_SetActiveRoundTrip ==
  (last.op = "SetActive" /\ last.err = "" /\ Load(last.name).err = "")
    => /\ active = [present |-> TRUE, name |-> last.name]
       /\ GetActive.err = ""
       /\ GetActive.host.Name = last.name

C5_Witness ==
  /\ last.op = "SetActive"
  /\ last.err = ""
  /\ last.name # "default"
  /\ GetActive.err = ""
  /\ GetActive.host.Name = last.name

RemoveOrders ==
  { <<"GetActive">>,
    <<"GetActive", "RemoveActive">>,
    <<"GetActive", "RemoveActive", "Load">>,
    <<"GetActive", "RemoveActive", "Load", "Driver.Remove">>,
    <<"GetActive", "RemoveActive", "Load", "Driver.Remove", "RemoveAll">>,
    <<"GetActive", "Load">>,
    <<"GetActive", "Load", "Driver.Remove">>,
    <<"GetActive", "Load", "Driver.Remove", "RemoveAll">> }

\* C6: Remove(name) clears the pointer before it loads the host, and loads
\* the host before the driver's Remove; it clears the pointer exactly when
\* name is the active host; after a successful Remove of the active host
\* GetActive returns "default".
C6_RemoveOrder ==
  [][ last'.op = "Remove"
        => LET wasActive == GetActive.err = "" /\ GetActive.host.Name = last'.name
               cleared == Has(last'.trace, "RemoveActive")
           IN /\ last'.trace \in RemoveOrders
              /\ cleared <=> wasActive
              /\ (cleared /\ Has(last'.trace, "Load")) => ~active'.present
              /\ (wasActive /\ last'.err = "")
                   => /\ GetActive'.err = ""
                      /\ GetActive'.host.Name = "default" ]_vars

C6_Witness ==
  /\ last.op = "Remove"
  /\ last.err = ""
  /\ last.trace = <<"GetActive", "RemoveActive", "Load", "Driver.Remove", "RemoveAll">>
  /\ GetActive.host.Name = "default"

\* C7: after a Remove(name) that returned no error, name's directory is
\* gone, Exists(name) is false and List has no entry named name.
C7_RemovedIsGone ==
  (last.op = "Remove" /\ last.err = "" /\ last.name # "default")
    => /\ ~dirs[last.name].exists
       /\ ~Exists(last.name)
       /\ ~Has(ListNames, last.name)
       /\ Load(last.name).err # ""

C7_Witness ==
  /\ last.op = "Remove"
  /\ last.err = ""
  /\ last.name # "default"
  /\ Has(last.calls, "TerminateInstances")

Listed(n) == Count(ListNames, n) = 1
Entry(n) == List.hosts[IndexOf(ListNames, n)]

\* C8: a Create that returns no error saved the driver's state after
\* Driver.Create, Exists(name) is true and List has exactly one entry named
\* name, carrying the URL the created host has; every saved
\* host is listed exactly once with its saved settings, and a saved host's
\* directory is unchanged by every step that is not a Remove of it.
C8_CreatedIsListed ==
  /\ [](/\ (last.op = "Create" /\ last.err = "")
             => /\ last.name # "default"
                /\ SubSeq(last.trace, Len(last.trace) - 1, Len(last.trace))
                     = <<"Driver.Create", "SaveConfig">>
                /\ dirs[last.name].saved
                /\ dirs[last.name].cfg = last.host.d
                /\ Exists(last.name)
                /\ Listed(last.name)
                /\ GetURL(Entry(last.name).d) = GetURL(last.host.d)
         /\ \A n \in HostNames \ {"default"} :
              dirs[n].saved => (Listed(n) /\ Entry(n).d = dirs[n].cfg))
  /\ [][ \A n \in HostNames :
          (dirs[n].saved /\ ~(last'.op = "Remove" /\ last'.name = n))
            => dirs'[n] = dirs[n] ]_vars

C8_Witness ==
  /\ last.op = "List"
  /\ Has(HostNamesOf(last.list), "a")
  /\ \E i \in 1..Len(last.list) :
       last.list[i].Name = "a" /\ GetURL(last.list[i].d) = "tcp://10.0.0.1:2375"

Recognized ==
  { <<"pending">>, <<"running">>, <<"stopped">>, <<"stopping">> }

StatusIn(resp) == TrimSpace(resp.ReservationSet[1].InstancesSet[1].InstanceState)

\* C10: GetState never panics; a recognized status gives its state and no
\* error; any other status gives Error and an error that is not nil.
C10_GetStateTable ==
  (last.op = "GetState" /\ last.name # "default")
    => /\ ~last.panic
       /\ (last.resp.fail = "" /\ ~last.panic)
            => LET s == StatusIn(last.resp) IN
               /\ s = <<"pending">> => (last.st = Starting /\ last.err = "")
               /\ s = <<"running">> => (last.st = Running /\ last.err = "")
               /\ s = <<"stopped">> => (last.st = Stopped /\ last.err = "")
               /\ s = <<"stopping">> => (last.st = Stopped /\ last.err = "")
               /\ s \notin Recognized => (last.st = Error /\ last.err # "")

\* A response with a recognized status, mapped as the table says.
C10_Witness ==
  /\ last.op = "GetState"
  /\ last.resp.fail = ""
  /\ ~last.panic
  /\ StatusIn(last.resp) = <<"stopping">>
  /\ last.st = Stopped

\* C11: while provision's loop is still polling, fewer than
\* MAX_SSH_CONNECTION_ATTEMPTS polls have been made (the loop never goes past
\* the ceiling, whether an address is reported or not), and the timeout error
\* is returned by the poll that makes the count exactly the ceiling.
C11_PollingStopsAtCeiling ==
  /\ [](run.pc = "poll" => run.attempts < MAX_SSH_CONNECTION_ATTEMPTS)
  /\ [][ (run.pc = "poll" /\ run'.err = "SSH max attempts exceeded")
           => run.attempts + 1 = MAX_SSH_CONNECTION_ATTEMPTS ]_vars

CreateReturned == run.op = "Create" /\ run.pc = "done" /\ ~run.panic

\* C12: when Create returns no error and provisioning is enabled, a dial to
\* port 22 succeeded at some poll and every bootstrap command that was run
\* succeeded.
C12_NoSilentReadiness ==
  (CreateReturned /\ run.err = "" /\ ~run.d.NoProvision)
    => /\ run.probed
       /\ \A i \in 1..Len(run.cmds) : run.cmds[i].ok

C12_Witness ==
  /\ CreateReturned
  /\ run.err = ""
  /\ ~run.d.NoProvision
  /\ run.probed
  /\ Len(run.cmds) = 3

\* C13: a creation call answered "group already exists" is a success: no
\* ingress rule is sent and Create goes on to the key pair; any other
\* failure of the creation call ends Create with no further request; ingress
\* rules are sent only when the creation call created the group.
C13_SecurityGroupReuse ==
  (run.op = "Create" /\ Len(run.reqs) >= 1)
    => LET acts == Actions(run.reqs)
           first == run.answers[1]
       IN /\ acts[1] = "CreateSecurityGroup"
          /\ first = "dup"
               => /\ ~Has(acts, "AuthorizeSecurityGroupIngress")
                  /\ IF Len(acts) = 1 THEN run.pc = "createKeyPair"
                     ELSE acts[2] = "CreateKeyPair"
          /\ first \notin {"ok", "dup"}
               => /\ Len(acts) = 1
                  /\ run.pc = "done"
                  /\ run.err # "" \/ run.panic
          /\ Has(acts, "AuthorizeSecurityGroupIngress") => first = "ok"

C13_Witness ==
  /\ CreateReturned
  /\ run.err = ""
  /\ run.answers[1] = "dup"
  /\ Actions(run.reqs) = <<"CreateSecurityGroup", "CreateKeyPair", "RunInstances", "CreateTags">>

\* The number of authorize calls made so far by the run.
Authorizes == Count(Actions(run.reqs), "AuthorizeSecurityGroupIngress")

\* C14: the ingress loop makes at most MAX_REQUEST_ATTEMPTS authorize calls,
\* one after the other right after the creation call; every call but the
\* last met a 400; after a success Create goes on to the key pair; after any
\* failure that is not a 400 Create ends at once; after a 400 the loop calls
\* again while fewer than MAX_REQUEST_ATTEMPTS calls were made, and after the
\* last 400 Create goes on to the key pair with no error.
C14_IngressLoop ==
  (run.op = "Create" /\ Authorizes >= 1)
    => LET acts == Actions(run.reqs)
           n == Authorizes
           final == run.answers[1 + n]
           goesOn == IF Len(acts) = 1 + n
                       THEN run.pc = "createKeyPair" /\ run.err = "" /\ ~run.panic
                       ELSE acts[2 + n] = "CreateKeyPair"
       IN /\ n <= MAX_REQUEST_ATTEMPTS
          /\ \A i \in 2..(1 + n) : acts[i] = "AuthorizeSecurityGroupIngress"
          /\ \A i \in 2..n : run.answers[i] = "400"
          /\ final = "ok" => goesOn
          /\ final \in {"500", "transport"}
               => /\ Len(acts) = 1 + n
                  /\ run.pc = "done"
                  /\ run.err # "" \/ run.panic
          /\ (final = "400" /\ n < MAX_REQUEST_ATTEMPTS)
               => (Len(acts) = 1 + n /\ run.pc = "authorize")
          /\ (final = "400" /\ n = MAX_REQUEST_ATTEMPTS) => goesOn

C14_Witness ==
  /\ CreateReturned
  /\ run.err = ""
  /\ Authorizes = MAX_REQUEST_ATTEMPTS
  /\ run.answers[1 + MAX_REQUEST_ATTEMPTS] = "400"

\* The requests of a whole Create that made n authorize calls.
CreateOrder(n) ==
  <<"CreateSecurityGroup">>
    \o [i \in 1..n |-> "AuthorizeSecurityGroupIngress"]
    \o <<"CreateKeyPair", "RunInstances", "CreateTags">>

\* Request i of the run met a failure of its step (a duplicate group and a
\* 400 to an authorize call are the two answers the code does not count as
\* one).
StepFailed(i) ==
  /\ run.answers[i] # "ok"
  /\ ~(i = 1 /\ run.answers[i] = "dup")
  /\ ~(run.reqs[i].Action = "AuthorizeSecurityGroupIngress" /\ run.answers[i] = "400")

\* C15: Create's requests come in the order security group, key pair,
\* RunInstances, tags; the key file is written before RunInstances; polling
\* and the bootstrap commands come between RunInstances and the tags; and a
\* request or command that fails is the last thing Create does, and Create
\* returns an error.
C15_CreateOrderFatal ==
  run.op = "Create"
    => LET acts == Actions(run.reqs)
           order == CreateOrder(Authorizes)
       IN /\ Len(acts) <= Len(order)
          /\ acts = SubSeq(order, 1, Len(acts))
          /\ Has(acts, "RunInstances") => run.keyFile # ""
          /\ run.pc \in {"poll", "install", "options", "restart"}
               => acts[Len(acts)] = "RunInstances"
          /\ (run.cmds # <<>> \/ run.probed) => Has(acts, "RunInstances")
          /\ Has(acts, "CreateTags") => run.pc = "done"
          /\ \A i \in 1..Len(acts) :
               StepFailed(i)
                 => (i = Len(acts) /\ run.pc = "done" /\ run.err # "" /\ ~run.panic)
          /\ \A i \in 1..Len(run.cmds) :
               ~run.cmds[i].ok
                 => (/\ i = Len(run.cmds) /\ run.pc = "done" /\ run.err # ""
                     /\ ~Has(acts, "CreateTags"))

\* C16: at every point of a Create, no TerminateInstances and no
\* DeleteKeyPair request has been sent, the instance it was handed is still
\* at the provider, the group it created is still there and the key file it
\* wrote is still in the host directory.
C16_NoRollback ==
  run.op = "Create"
    => LET acts == Actions(run.reqs) IN
       /\ ~Has(acts, "TerminateInstances")
       /\ ~Has(acts, "DeleteKeyPair")
       /\ run.d.InstanceId # "" => run.d.InstanceId \in remote.instances
       /\ (Len(acts) >= 1 /\ run.answers[1] = "ok") => remote.group
       /\ \A i \in 1..Len(acts) :
            (acts[i] = "CreateKeyPair" /\ run.answers[i] = "ok") => run.keyFile # ""

C16_Witness ==
  /\ CreateReturned
  /\ run.err = "Error tagging instance name"
  /\ run.d.InstanceId \in remote.instances
  /\ run.probed

\* The bootstrap commands of a driver, in the order provision runs them.
Bootstrap(d) ==
  IF d.NoInstall THEN <<"options", "restart">>
  ELSE <<"install", "options", "restart">>

\* C17: commands run only after a dial succeeded, in the order install
\* (unless NoInstall), options, restart; a command that fails is the last one
\* run and Create returns with the error of that command; a provisioning
\* that ends without error has run them all.
C17_BootstrapOrder ==
  run.op = "Create"
    => LET names == [i \in 1..Len(run.cmds) |-> run.cmds[i].cmd]
           all == Bootstrap(run.d)
       IN /\ Len(names) <= Len(all)
          /\ names = SubSeq(all, 1, Len(names))
          /\ names # <<>> => run.probed
          /\ \A i \in 1..Len(names) :
               ~run.cmds[i].ok
                 => /\ i = Len(names)
                    /\ run.pc = "done"
                    /\ run.err = "Error running " \o names[i]
          /\ (run.probed /\ run.pc \in {"tagInstance", "done"}
                /\ \A i \in 1..Len(names) : run.cmds[i].ok)
               => (run.panic \/ names = all)

C17_Witness ==
  /\ CreateReturned
  /\ run.err = "Error running options"
  /\ ~run.d.NoInstall
  /\ Len(run.cmds) = 2

\* C18: a Create sends at most one RunInstances request; it asks for one
\* instance (MinCount = MaxCount = 1) and the provider starts just one; it
\* comes right after a CreateKeyPair that was answered with success, which
\* comes after the security-group step; and when it fails it is the last
\* request of the Create.
C18_OneRunInstances ==
  run.op = "Create"
    => LET acts == Actions(run.reqs) IN
       /\ Count(acts, "RunInstances") <= 1
       /\ Cardinality(remote.instances) <= 1
       /\ \A i \in 1..Len(acts) :
            acts[i] = "RunInstances"
              => /\ run.reqs[i].MinCount = 1
                 /\ run.reqs[i].MaxCount = 1
                 /\ i = 3 + Authorizes
                 /\ acts[1] = "CreateSecurityGroup"
                 /\ run.answers[1] \in {"ok", "dup"}
                 /\ acts[i - 1] = "CreateKeyPair"
                 /\ run.answers[i - 1] \notin {"400", "500", "transport"}
                 /\ run.keyFile # ""
                 /\ run.answers[i] = "ok" <=> remote.instances = {run.d.InstanceId}
                 /\ run.answers[i] # "ok"
                      => (i = Len(acts) /\ run.pc = "done" /\ remote.instances = {})

C18_Witness ==
  /\ CreateReturned
  /\ run.err = "Error running the EC2 instance"
  /\ Count(Actions(run.reqs), "RunInstances") = 1
  /\ remote.instances = {}

\* The answer describes the instance, with a network interface, in the
\* given state.
Reports(resp, status) ==
  /\ resp.fail = ""
  /\ Len(resp.ReservationSet) >= 1
  /\ Len(resp.ReservationSet[1].InstancesSet) >= 1
  /\ Len(resp.ReservationSet[1].InstancesSet[1].NetworkInterfaceSet) >= 1
  /\ resp.ReservationSet[1].InstancesSet[1].InstanceState = status

\* C19: a Create in which every request, probe and command succeeded
\* returns no error with d.InstanceId set to the one instance the provider
\* started for its RunInstances; and a GetState right after it, answered
\* with the instance in state "running", returns Running and no error.
C19_CleanCreate ==
  /\ []((run.op = "Create" /\ run.pc = "done" /\ run.clean)
          => /\ ~run.panic
             /\ run.err = ""
             /\ run.d.InstanceId # ""
             /\ remote.instances = {run.d.InstanceId}
             /\ Actions(run.reqs)[Len(run.reqs) - 1] = "RunInstances")
  /\ [][ (/\ run.op = "Create" /\ run.pc = "done" /\ run.clean
          /\ run'.op = "GetState"
          /\ Reports(run'.resp, <<"running">>))
           => /\ run'.st = Running
              /\ run'.err = ""
              /\ ~run'.panic
              /\ run'.d.InstanceId = run.d.InstanceId ]_vars

C19_Witness ==
  /\ run.op = "GetState"
  /\ Reports(run.resp, <<"running">>)
  /\ run.st = Running
  /\ run.d.InstanceId = "i-1"
  /\ run.d.IPAddress = "10.0.0.1"

LifecycleAction ==
  [ Start |-> "StartInstances", Stop |-> "StopInstances",
    Restart |-> "RebootInstances", Kill |-> "StopInstances",
    Remove |-> "TerminateInstances" ]

\* C20: a Start, Stop, Restart, Kill or Remove sends exactly one request, of
\* its own action, carrying the stored InstanceId; when the request fails
\* the method returns an error, having sent nothing more.
C20_OneActionEach ==
  run.op \in DOMAIN LifecycleAction
    => /\ Len(run.reqs) = 1
       /\ run.reqs[1] = [Action |-> LifecycleAction[run.op],
                         InstanceId |-> run.d.InstanceId]
       /\ run.answers[1] # "ok" => (run.err # "" /\ ~run.panic)
       /\ run.answers[1] = "ok" => (run.err = "" /\ ~run.panic)

\* C21: on the EC2 driver Kill does what Stop does.  A call of either sends
\* one request, StopInstances for the stored InstanceId, and what it returns
\* is decided by what that request met alone: nil for a 200 answer, the API
\* error for another status, and the same nil-response panic for no answer;
\* neither touches the driver's fields or the provider's instances.
StopOutcome(r, id) ==
  /\ r.reqs = << [Action |-> "StopInstances", InstanceId |-> id] >>
  /\ Len(r.answers) = 1
  /\ r.pc = "done"
  /\ r.panic = (r.answers[1] = "transport")
  /\ r.err = IF r.answers[1] \in {"400", "500"} THEN "Problem with AWS API call" ELSE ""

C21_KillIsStop ==
  [][ (run'.op \in {"Stop", "Kill"} /\ run' # run)
        => /\ StopOutcome(run', run.d.InstanceId)
           /\ run'.d = run.d
           /\ remote' = remote ]_vars

C21_Witness ==
  /\ run.op = "Kill"
  /\ run.d.InstanceId # ""
  /\ run.reqs = << [Action |-> "StopInstances", InstanceId |-> run.d.InstanceId] >>
  /\ run.answers = <<"ok">>
  /\ run.err = ""

\* C22: remote mutation stays within Create, Start, Stop, Restart, Kill and
\* Remove.  A call of GetState sends one DescribeInstances query and nothing
\* else, GetURL and GetIP send nothing; none of the three changes the
\* provider, the store's disk or a field of the driver; GetState may only
\* overwrite the driver's in-memory IPAddress and PublicDnsName with what
\* the provider reported.
Mutators == {"Create", "Start", "Stop", "Restart", "Kill", "Remove"}
Readers == {"GetState", "GetURL", "GetIP"}

RequestsConfined ==
  /\ run.op = "GetState" => Actions(run.reqs) = <<"DescribeInstances">>
  /\ run.op \in {"GetURL", "GetIP"} => run.reqs = <<>>
  /\ (\E i \in 1..Len(run.reqs) : run.reqs[i].Action # "DescribeInstances")
       => run.op \in Mutators

C22_Original ==
  /\ []RequestsConfined
  /\ [][ remote' # remote => run'.op \in Mutators ]_vars
  /\ [][ (run'.op \in Readers /\ run' # run)
           => (remote' = remote /\ Disk' = Disk /\ run'.d = run.d) ]_vars

C22_ReadersOnlyQuery ==
  /\ []RequestsConfined
  /\ [][ remote' # remote => run'.op \in Mutators ]_vars
  /\ [][ (run'.op \in Readers /\ run' # run)
           => /\ remote' = remote
              /\ Disk' = Disk
              /\ run'.op \in {"GetURL", "GetIP"} => run'.d = run.d
              /\ run'.op = "GetState"
                   => [run'.d EXCEPT !.IPAddress = "", !.PublicDnsName = ""]
                        = [run.d EXCEPT !.IPAddress = "", !.PublicDnsName = ""] ]_vars

C22_Witness ==
  /\ run.op = "GetState"
  /\ run.d.InstanceId # ""
  /\ run.reqs = << [Action |-> "DescribeInstances", InstanceId |-> run.d.InstanceId] >>
  /\ run.st = Running
  /\ remote.instances # {}

\* C23: Start, Stop, Restart and Kill on a loaded host leave the driver's
\* local fields as the descriptor on disk has them, whatever the request
\* met, and leave the store's disk (every descriptor, the pointer) and the
\* model's record of the provider as they were.
C23_LifecycleKeepsLocal ==
  [][ (last'.op \in LifecycleOps /\ last' # last)
        => /\ Disk' = Disk
           /\ last'.host.d = Load(last'.name).host.d
           /\ last'.name # "default"
                => /\ dirs[last'.name].saved
                   /\ last'.host.d = dirs[last'.name].cfg
                   /\ last'.calls = <<ActionOf(last'.op)>> ]_vars

C23_Witness ==
  /\ last.op = "Restart"
  /\ last.err = ""
  /\ last.calls = <<"RebootInstances">>
  /\ dirs[last.name].saved
  /\ last.host.d = dirs[last.name].cfg
  /\ last.host.d.InstanceId # ""
  /\ last.host.d.IPAddress # ""

\* The create command got as far as applying its flags to the driver.
FlagsApplied ==
  /\ last.op = "Create"
  /\ Len(last.trace) >= 3
  /\ last.trace[3] = "SetConfigFromFlags"

\* Region and image id given so that one is the default and the other is not.
Mismatch(flags) ==
  (flags.Region = DEFAULT_REGION) # (flags.ImageId = DEFAULT_IMAGE_ID)

\* C24: a create command whose flags pair a region that is not the default
\* with the default image id, or the default region with another image id,
\* ends in SetConfigFromFlags with an error: no directory is made,
\* Driver.Create is not invoked and nothing is sent to the provider.
C24_RejectsRegionWithoutImage ==
  (FlagsApplied /\ Mismatch(conf.flags))
    => /\ last.err # ""
       /\ last.trace = <<"Exists", "NewHost", "SetConfigFromFlags">>
       /\ last.calls = <<>>
       /\ ~dirs[last.name].exists

\* C25: a create command with the access key or the secret key left out of
\* its flags takes both keys from the environment; with a variable unset it
\* ends in SetConfigFromFlags with the error that names the first variable
\* missing, before any directory is made or request sent; with both keys in
\* the flags the driver holds the flags' keys whatever the environment is.
NeedsEnv(flags) == flags.AccessKey = "" \/ flags.SecretKey = ""

ConfigError(variable) ==
  "Error setting the AWS_ACCESS_KEY_ID and AWS_SECRET_ACCESS_KEY environment variables :"
    \o variable \o " not defined"

C25_CredentialsFromEnv ==
  [][ (last'.op = "Create" /\ last' # last /\ Len(last'.trace) >= 3)
        => LET flags == conf.flags
               env == conf.env
               rejected == /\ last'.trace = <<"Exists", "NewHost", "SetConfigFromFlags">>
                           /\ last'.calls = <<>>
                           /\ Disk' = Disk
                           /\ remote' = remote
               held == last'.host.d
           IN /\ (NeedsEnv(flags) /\ env.AWS_ACCESS_KEY_ID = "")
                   => (rejected /\ last'.err = ConfigError("AWS_ACCESS_KEY_ID"))
              /\ (NeedsEnv(flags) /\ env.AWS_ACCESS_KEY_ID # ""
                    /\ env.AWS_SECRET_ACCESS_KEY = "")
                   => (rejected /\ last'.err = ConfigError("AWS_SECRET_ACCESS_KEY"))
              /\ (NeedsEnv(flags) /\ env.AWS_ACCESS_KEY_ID # ""
                    /\ env.AWS_SECRET_ACCESS_KEY # "")
                   => /\ Len(last'.trace) >= 4
                      /\ last'.host # NoHost
                           => /\ held.AccessKey = env.AWS_ACCESS_KEY_ID
                              /\ held.SecretKey = env.AWS_SECRET_ACCESS_KEY
              /\ ~NeedsEnv(flags)
                   => /\ ~Mismatch(flags) => Len(last'.trace) >= 4
                      /\ last'.host # NoHost
                           => /\ held.AccessKey = flags.AccessKey
                              /\ held.SecretKey = flags.SecretKey ]_vars

C25_Witness ==
  /\ last.op = "Create"
  /\ last.err = ""
  /\ conf.flags.AccessKey = "AK"
  /\ conf.flags.SecretKey = ""
  /\ last.host.d.AccessKey = "EAK"
  /\ last.host.d.SecretKey = "ESK"
  /\ dirs[last.name].saved

\* C26: a Create that ends in NewHost does so with the unknown-driver error,
\* and a Create that gets past NewHost has a registered driver; a driver
\* fresh from its factory names no instance and no address.  A Create that
\* ends in NewHost or in SetConfigFromFlags returns an error, makes no
\* directory, sends nothing to the provider, and Exists of its name stays
\* false.
C26_UnknownDriverTouchesNothing ==
  [][ (last'.op = "Create" /\ last' # last /\ Len(last'.trace) >= 2)
        => /\ Len(last'.trace) = 2 => last'.err = "unknown driver"
           /\ (Len(last'.trace) > 2 /\ last'.host # NoHost)
                => last'.host.DriverName \in RegisteredDrivers
           /\ Len(last'.trace) <= 3
                => /\ last'.err # ""
                   /\ last'.calls = <<>>
                   /\ last'.host.d.InstanceId = ""
                   /\ last'.host.d.IPAddress = ""
                   /\ Disk' = Disk
                   /\ remote' = remote
                   /\ \A n \in HostNames : n = last'.name => (~Exists(n))' ]_vars

C26_Witness ==
  /\ last.op = "Create"
  /\ last.trace = <<"Exists", "NewHost">>
  /\ last.err = "unknown driver"
  /\ ~Exists(last.name)
  /\ remote.instances # {}

\* What the settings hold under a key, nil when the map is nil or the key
\* is not set.
Persisted(c, key) == IF c.nil THEN NilV ELSE c.settings[key]

\* C27: GetHost returns the value of DOCKER_HOST when it is set and not
\* empty; otherwise the persisted Host setting when there is one; otherwise
\* unix:///var/run/docker.sock.  GetCertPath resolves DOCKER_CERT_PATH,
\* CertPath and its default in the same order.
ResolvedInOrder(c, c1, envVar, key, default) ==
  LET envVal == c.env[envVar]
      kept == Persisted(c, key)
  IN /\ envVal # "" => (c1.out = StrV(envVal) /\ ~c1.panic)
     /\ (envVal = "" /\ kept.type = "string") => (c1.out = kept /\ ~c1.panic)
     /\ (envVal = "" /\ kept = NilV) => (c1.out = StrV(default) /\ ~c1.panic)
     /\ ~c1.fatal
     /\ c1.env = c.env /\ c1.settings = c.settings

C27_ResolutionOrder ==
  [][ /\ (conf'.op = "GetHost" /\ conf' # conf)
           => /\ ResolvedInOrder(conf, conf', "DOCKER_HOST", "Host",
                                 "unix:///var/run/docker.sock")
              /\ (conf.env.DOCKER_HOST = ""
                    /\ Persisted(conf, "Host") = StrV("tcp://1.2.3.4:2375"))
                   => conf'.out.val = "tcp://1.2.3.4:2375"
              /\ conf.env.DOCKER_HOST = "unix:///tmp/x.sock"
                   => conf'.out.val = "unix:///tmp/x.sock"
      /\ (conf'.op = "GetCertPath" /\ conf' # conf)
           => ResolvedInOrder(conf, conf', "DOCKER_CERT_PATH", "CertPath", "~/.docker")
    ]_vars

C27_Witness ==
  /\ conf.op = "GetHost"
  /\ conf.env.DOCKER_HOST = "unix:///tmp/x.sock"
  /\ Persisted(conf, "Host") = StrV("tcp://1.2.3.4:2375")
  /\ conf.out = StrV("unix:///tmp/x.sock")

\* C28: GetTlsVerify resolves DOCKER_TLS_VERIFY, the TlsVerify setting and
\* the default "false" in that order; a boolean is returned as it is, a text
\* that strconv.ParseBool accepts is returned as the boolean it stands for,
\* and a text it rejects or a value of another type ends the process:
\* nothing malformed comes back as a value.
TlsVerifyValue(c) ==
  IF c.env.DOCKER_TLS_VERIFY # "" THEN StrV(c.env.DOCKER_TLS_VERIFY)
  ELSE IF Persisted(c, "TlsVerify") # NilV THEN Persisted(c, "TlsVerify")
  ELSE StrV("false")

C28_TlsVerifyStrict ==
  [][ (conf'.op = "GetTlsVerify" /\ conf' # conf)
        => LET v == TlsVerifyValue(conf)
               truthy == {"1", "t", "T", "TRUE", "true", "True"}
               falsy == {"0", "f", "F", "FALSE", "false", "False"}
               wellFormed == \/ v.type = "bool"
                             \/ v.type = "string" /\ v.val \in truthy \cup falsy
           IN /\ ~conf'.panic
              /\ conf'.fatal = ~wellFormed
              /\ v.type = "bool" => conf'.out = v
              /\ (v.type = "string" /\ v.val \in truthy) => conf'.out = BoolV(TRUE)
              /\ (v.type = "string" /\ v.val \in falsy) => conf'.out = BoolV(FALSE)
              /\ ~wellFormed => conf'.out = NilV ]_vars

C28_Witness ==
  /\ conf.op = "GetTlsVerify"
  /\ conf.fatal
  /\ conf.env.DOCKER_TLS_VERIFY = ""
  /\ Persisted(conf, "TlsVerify") = StrV("maybe")

\* C29: List returns without an error whatever the host directories hold;
\* its result has "default", every other host whose directory is there and
\* loads, each as Load returns it, and no host that fails to load.
C29_ListSkipsUnloadable ==
  last.op = "List"
    => LET names == HostNamesOf(last.list) IN
       /\ last.err = ""
       /\ Count(names, "default") = 1
       /\ \A n \in HostNames \ {"default"} :
            /\ (dirs[n].exists /\ Load(n).err = "")
                 => (Count(names, n) = 1 /\ last.list[IndexOf(names, n)] = Load(n).host)
            /\ Load(n).err # "" => ~Has(names, n)

C29_Witness ==
  /\ last.op = "List"
  /\ last.err = ""
  /\ \E n, m \in HostNames \ {"default"} :
       /\ dirs[n].exists /\ Load(n).err # ""
       /\ dirs[m].exists /\ Load(m).err = ""
       /\ HostNamesOf(last.list) = <<"default", m>>

\* The call of process p got past the Exists check and ran an instance.
Provisioned(p) ==
  /\ procs[p].pc \in {"save", "done"}
  /\ Has(procs[p].calls, "RunInstances")
  /\ procs[p].host.d.InstanceId # ""

\* C30: nothing after the Exists check of Store.Create looks at the
\* directory again.  A call that passed the check is stopped at os.MkdirAll
\* only by a file system failure, never because the directory has been made
\* meanwhile, and it is never told that the host exists; so two calls for
\* one name that both passed the check both go on to Driver.Create, and when
\* both ran their instance the provider holds two instances, with different
\* identifiers, for the one directory.
C30_CheckThenCreateRace ==
  /\ [][ \A p \in Procs :
           /\ (procs[p].pc = "mkdir" /\ procs'[p].pc = "done") => procs'[p].err = "mkdir"
           /\ (procs[p].pc \in {"mkdir", "create", "save"} /\ procs'[p].pc = "done")
                => procs'[p].err # "already exists" ]_vars
  /\ [](\A p, q \in Procs :
          (p # q /\ procs[p].name = procs[q].name /\ Provisioned(p) /\ Provisioned(q))
            => /\ procs[p].host.d.InstanceId # procs[q].host.d.InstanceId
               /\ {procs[p].host.d.InstanceId, procs[q].host.d.InstanceId}
                    \subseteq remote.instances
               /\ dirs[procs[p].name].exists)

C30_Witness ==
  /\ procs[1].pc = "done" /\ procs[2].pc = "done"
  /\ procs[1].name = "a" /\ procs[2].name = "a"
  /\ procs[1].err = "" /\ procs[2].err = ""
  /\ Provisioned(1) /\ Provisioned(2)
  /\ Cardinality(remote.instances) = 2
  /\ dirs["a"].saved

\* C31: once no SetActive is in progress, the pointer file holds exactly
\* the name given to the write that happened last, and GetActive returns
\* the host of that name.
C31_LastWriterWins ==
  ( /\ \A p \in Procs : procs[p].pc \in {"idle", "done"}
    /\ last.trace # <<>> )
    => /\ active.present
       /\ active.name = last.trace[Len(last.trace)]
       /\ GetActive.err = ""
       /\ GetActive.host.Name = last.trace[Len(last.trace)]

\* What Driver.Create does for a host when no other call runs: every result
\* it can have against the provider as InitRace leaves it.
CreateAlone ==
  { DriverCreate(SetConfigFromFlags(NewDriver, flags, NoEnv).d,
                 [next |-> 1, instances |-> {}, group |-> FALSE],
                 failAt, rid, <<"up">>) :
      flags \in RaceFlags,
      failAt \in FailPoints \ {"ssh install", "ssh options", "ssh restart"},
      rid \in RandomIDs }

C33_NoProvisionSkipsBootstrap ==
  (run.op = "Create" /\ run.d.NoProvision)
    => LET acts == SelectSeq(Actions(run.reqs),
                             LAMBDA a : a # "AuthorizeSecurityGroupIngress")
       IN /\ run.pc \notin {"poll", "install", "options", "restart"}
          /\ run.attempts = 0
          /\ ~run.probed
          /\ run.cmds = <<>>
          /\ ~Has(acts, "DescribeInstances")
          /\ Len(acts) <= 4
          /\ acts = SubSeq(<<"CreateSecurityGroup", "CreateKeyPair",
                             "RunInstances", "CreateTags">>, 1, Len(acts))
          /\ run.pc = "tagInstance"
               => /\ Len(acts) = 3
                  /\ run.answers[Len(run.answers)] = "ok"
                  /\ run.d.InstanceId \in remote.instances
          /\ (run.pc = "done" /\ run.err = "" /\ ~run.panic)
               => /\ Len(acts) = 4
                  /\ run.reqs[Len(run.reqs)] = CreateTagsRequest(run.d)
                  /\ run.d.InstanceId \in remote.instances
                  /\ run.keyFile # ""

C33_Witness ==
  /\ run.op = "Create" /\ run.d.NoProvision
  /\ run.pc = "done" /\ run.err = "" /\ ~run.panic
  /\ Actions(run.reqs) = <<"CreateSecurityGroup", "AuthorizeSecurityGroupIngress",
                           "CreateKeyPair", "RunInstances", "CreateTags">>
  /\ run.d.InstanceId = "i-1"
  /\ ~run.probed /\ run.cmds = <<>>

\* The step is the iteration of provision's loop that got resp from the
\* state query and dial from the probe.
Polled(resp, dial) ==
  /\ run.pc = "poll"
  /\ run' = Noted(run, pollOnce(run, resp, dial), PollSucceeds(run, resp, dial))

\* C34: every iteration that stays in the loop adds one to attempts.  An
\* iteration whose state query succeeds and reports no address stays in the
\* loop whatever attempts is; one whose state query fails returns the
\* state error at once; and the timeout is returned only by an iteration
\* that has an address, a failed dial and attempts at or above
\* MAX_SSH_CONNECTION_ATTEMPTS, a failed dial below the ceiling staying in
\* the loop.
C34_CeilingOnlyAfterFailedProbe ==
  [][ \A resp \in PollResponses, dial \in Dials :
        Polled(resp, dial)
          => LET g == GetState(run.d, resp)
                 answered == resp.fail # "transport" /\ ~g.panic
                 attempts == run.attempts + 1
             IN /\ run'.pc = "poll" => run'.attempts = attempts
                /\ (answered /\ g.err = "" /\ g.d.IPAddress = "")
                     => (run'.pc = "poll" /\ run'.err = "" /\ ~run'.panic)
                /\ (answered /\ g.err # "")
                     => (run'.pc = "done" /\ run'.err = "Error getting instance state")
                /\ (answered /\ g.err = "" /\ g.d.IPAddress # "" /\ dial = "refused")
                     => IF attempts < MAX_SSH_CONNECTION_ATTEMPTS
                          THEN run'.pc = "poll"
                          ELSE run'.err = "SSH max attempts exceeded"
                /\ run'.err = "SSH max attempts exceeded"
                     => /\ answered /\ g.err = ""
                        /\ g.d.IPAddress # ""
                        /\ dial = "refused"
                        /\ attempts >= MAX_SSH_CONNECTION_ATTEMPTS ]_vars

\* The loop is still polling after more polls than the ceiling, none of
\* which reported an address.
C34_Witness ==
  /\ run.op = "Create"
  /\ run.pc = "poll"
  /\ run.attempts > MAX_SSH_CONNECTION_ATTEMPTS
  /\ run.d.IPAddress = ""

\* The last call was a Store.Create that failed inside Driver.Create.
CreateFailedInDriver ==
  /\ last.op = "Create"
  /\ last.err # ""
  /\ last.trace # <<>>
  /\ last.trace[Len(last.trace)] = "Driver.Create"

\* The host directory of n is there without a descriptor in it.
Unsaved(n) == dirs[n].exists /\ ~dirs[n].saved

\* C35: a Store.Create that failed inside Driver.Create leaves the host
\* directory without a descriptor, so the name exists and does not load.
\* While such a directory is there every Store.Create of the name returns
\* the already-exists error, with no host and nothing done; and no Store
\* call takes the directory away, Store.Remove of the name failing before
\* it reaches the driver.
C35_FailedCreateBlocksName ==
  /\ [](CreateFailedInDriver
          => /\ Unsaved(last.name)
             /\ Exists(last.name)
             /\ Load(last.name).err # "")
  /\ [][ \A n \in HostNames \ {"default"} :
           Unsaved(n)
             => /\ Unsaved(n)'
                /\ (last'.op = "Create" /\ last'.name = n)
                     => /\ last'.err = "already exists"
                        /\ last'.host = NoHost
                        /\ last'.calls = <<>>
                        /\ dirs' = dirs /\ remote' = remote
                /\ (last'.op = "Remove" /\ last'.name = n)
                     => /\ last'.err # ""
                        /\ last'.calls = <<>> ]_vars

\* A Create of the name was refused after a Create of it had failed in
\* Driver.Create: the key file is there and no instance was ever started.
C35_Witness ==
  /\ last.op = "Create"
  /\ last.name = "a"
  /\ last.err = "already exists"
  /\ Unsaved("a")
  /\ dirs["a"].key
  /\ remote.instances = {}

\* The identifier is in a descriptor some host directory holds.
OnDisk(id) == \E n \in HostNames : dirs[n].saved /\ dirs[n].cfg.InstanceId = id

C38_RemoveOfInactiveKeepsPointer ==
  [][ \A n \in HostNames :
        ( /\ last'.op = "Remove" /\ last'.name = n
          /\ ~(GetActive.err = "" /\ GetActive.host.Name = n) )
          => /\ ~Has(last'.trace, "RemoveActive")
             /\ active' = active
             /\ GetActive' = GetActive ]_vars

\* Host a was removed while b was the active host, and b still is.
C38_Witness ==
  /\ last.op = "Remove"
  /\ last.name = "a"
  /\ last.err = ""
  /\ ~dirs["a"].exists
  /\ active = [present |-> TRUE, name |-> "b"]
  /\ GetActive.err = ""
  /\ GetActive.host.Name = "b"

\* C39: Driver.Remove sends DeleteKeyPair, for the stored KeyName, first.
\* When that request fails Remove returns the error, TerminateInstances is
\* not sent and the provider's instances stay as they were; when it
\* succeeds TerminateInstances for the stored InstanceId is the second and
\* last request.
C39_KeyPairBeforeTerminate ==
  [][ run'.op = "Remove"
        => /\ Len(run'.reqs) >= 1
           /\ run'.reqs[1] = DeleteKeyPairRequest(run.d)
           /\ run'.answers[1] # "ok"
                => /\ Len(run'.reqs) = 1
                   /\ run'.err # ""
                   /\ ~run'.panic
                   /\ remote' = remote
           /\ run'.answers[1] = "ok"
                => /\ Len(run'.reqs) = 2
                   /\ run'.reqs[2] = StandardRequest("TerminateInstances", run.d) ]_vars

\* C40: String() of each State of the enumeration is its entry of the
\* names table, "Error" for Error among them; it is "" for None and for a
\* value outside the enumeration, and for nothing else.
C40_StringNamesEveryState ==
  conf.op = "String"
    => LET s == last.st
           known == s \in None..Error
       IN /\ ~conf.panic
          /\ known => conf.out = StrV(states[s + 1])
          /\ s = Error => conf.out = StrV("Error")
          /\ conf.out = StrV("") <=> (s = None \/ ~known)

====
